---- MODULE Spec2Model ----
(***************************************************************************)
(* DeepClaude gateway: the dispatcher's cancellation registry              *)
(* (app/manager/model_manager.py), the composite orchestrator              *)
(* (app/EnsembleModel/composite_model.py) and the streaming read loop of   *)
(* the upstream client (app/clients/base_client.py,                        *)
(* app/clients/openai_compatible_client.py).                               *)
(*                                                                         *)
(* Everything runs on one asyncio event loop: an action is the code that   *)
(* runs between two suspension points (an await on the network, a yield    *)
(* to the consumer of a generator).                                        *)
(***************************************************************************)
EXTENDS Integers, Sequences, FiniteSets, TLC

\* ------------------------------------------------------------------ bounds
\* The chat requests; First is the one followed in full detail.
Req == {"req1", "req2"}
First == "req1"
\* Deltas one upstream sends during one stage of one request.
MaxChunks == 2
\* The same, where two requests run concurrently.
PairChunks == 1
\* Data lines one read window holds at most.
MaxWindow == 2
\* Clock advances during one run.
MaxTicks == 1
\* Upstream calls made one after the other through the shared pool.
MaxCalls == 2
\* Pieces (a marker or a letter) the text of an embedded-reasoning upstream
\* is made of, and content deltas the upstream cuts it into.
MaxSegments == 4
MaxDeltas == 3
\* Rows ever inserted into the configuration store (ids handed out).
MaxUuids == 3
\* Events (data lines, `data: [DONE]`) in the body of one upstream response,
\* and read windows the body arrives in.
MaxEvents == 2
MaxReads == 3
\* Items the processors of one ModelChain run put on the output queue.
MaxItems == 4
\* max_connections of the SQLite pool and the retries of one get_connection
\* (max_wait / retry_interval).
MaxConnections == 2
MaxRetries == 1

\* ------------------------------------------------------- program constants
\* time.time() * 1000: the chat id counts milliseconds, `created` seconds.
MsPerSecond == 1000
HTTP_OK == 200
HTTP_BAD_REQUEST == 400
HTTP_NOT_FOUND == 404
HTTP_INTERNAL_ERROR == 500

\* Upstream model ids (ModelConfig.model_id) of the records a composite may
\* reference as its reasoner and as its general model, and of the record a
\* direct request names.
ReasonerModels == {"r1"}
GeneralModels == {"r1", "g1"}
DirectModels == {"g1"}
Roles == {"user", "assistant"}
\* Delta payloads of a data line: is reasoning_content / content non-empty.
\* Only the reasoning stage looks into a delta; the deltas of the other
\* upstreams are answer text.
Deltas(st) ==
    IF st = "reasoning" THEN [rc : BOOLEAN, c : BOOLEAN]
    ELSE {[rc |-> FALSE, c |-> TRUE]}

\* Body of POST /v1/cancel without a chat_id, and a chat id never dispatched.
NoChatId == <<>>
UnknownChatId == <<"chatcmpl">>

VARIABLES
    clock,                  \* wall clock, in milliseconds
    other_params,           \* reasoning_model / target_model of the composite
    cancel_events,          \* ModelManager.cancel_events: chat id -> the
                            \* request whose asyncio.Event is stored there
    pc,                     \* where each request's stream stands
    kind,                   \* composite | direct | origin
    chat_id,
    model,                  \* the `model` argument of the stream
    last_role,              \* role of messages[-1]
    messages,               \* the message dicts of the request as they are
                            \* now, the copy of the list the composite
                            \* made, and what the target was called with
    cancel_flag,            \* is the Event handed to the stream set
    reasoning_cancel_flag,
    target_cancel_flag,
    response,               \* per upstream call: none | open | released
    lines,                  \* lines of the current window not yet yielded
    sent,                   \* deltas the active upstream has sent so far
    blank_windows,          \* parity of the windows without a data line
                            \* read so far (nothing depends on the count)
    created,                \* `created` local of the active client
    temp_content,           \* accumulated reasoning (seq of the deltas)
    delivered,              \* chunks yielded to the caller, in order
    outcome,                \* how the stream ended
    connector,              \* ModelManager.connector, the shared TCP pool:
                            \* open | closed
    config,                 \* ModelManager.config["proxy_address"]
    call,                   \* one upstream call of a direct request, from
                            \* create_instance to the gateway's answer
    extraction,             \* one stream of DeepSeekClient.stream_chat with
                            \* is_origin_reasoning=False: the upstream's
                            \* text, the content deltas still to come, the
                            \* chunks yielded
    store,                  \* the sqlite tables providers, models and
                            \* composite_models, and the ids handed out
    reply,                  \* the last call on the store or the dispatcher:
                            \* what was asked and how it was answered
    framing,                \* one stream of a client's stream_chat over a
                            \* body cut into read windows: the events of
                            \* the body, the windows still to come, the
                            \* chunks yielded; or one run of the read loop
                            \* of _make_request under a cancel flag
    chain,                  \* one streaming run of ModelChain.process: the
                            \* context (output queue, completed, error),
                            \* the processing task and the consumer loop
    pool                    \* SQLiteConnectionPool (pool, available,
                            \* in_use) and the DBConnection contexts of the
                            \* threads

\* The dispatcher, the composite and their streams.
GatewayVars == <<clock, other_params, cancel_events, pc, kind, chat_id,
                 model, last_role, messages, cancel_flag, reasoning_cancel_flag,
                 target_cancel_flag, response, lines, sent, blank_windows,
                 created, temp_content, delivered, outcome>>

\* The parts that are followed in specifications of their own.
Aside == <<connector, config, call, extraction, store, reply, framing, chain, pool>>

vars == <<GatewayVars, Aside>>

Stages == {"reasoning", "target", "direct"}
ReasoningStates == {"Reasoning", "ReasoningYield"}
TargetStates == {"Target", "TargetYield"}
DirectStates == {"Direct", "DirectYield"}
Awaiting == {"Reasoning", "Target", "Direct"}
Ended(r) == pc[r] \in {"Done", "Failed"}
InFlight(r) == pc[r] \notin {"New", "Done", "Failed"}

\* chat_id = f"chatcmpl-{hex(int(time.time() * 1000))[2:]}": the token is a
\* fixed prefix and the hexadecimal digits of the millisecond count.
RECURSIVE HexDigits(_)
HexDigits(n) == IF n < 16 THEN <<n>> ELSE Append(HexDigits(n \div 16), n % 16)
ChatId(ms) == <<"chatcmpl">> \o HexDigits(ms)

\* created = int(time.time())
CreatedTime(ms) == ms \div MsPerSecond

TicksSoFar == (clock \div MsPerSecond) + (clock % MsPerSecond)

\* ---------------------------------------------------------- upstream wire
\* The line break of the event stream, and the line `data: [DONE]`.
NL == [nl |-> TRUE]
DONE == [done |-> TRUE]

\* The text of a read window that holds the data lines ds: each is followed
\* by its line break and by the blank line that ends the event.
RECURSIVE WireText(_)
WireText(ds) ==
    IF ds = << >> THEN << >> ELSE <<Head(ds), NL, NL>> \o WireText(Tail(ds))

\* A read window: the data lines it holds, numbered in the order the
\* upstream of stage `st` sends them; n deltas were sent before it, and the
\* upstream sends at most `max`.
WindowsOfLen(st, n, k) ==
    { WireText([i \in 1..k |-> [stage |-> st, seq |-> n + i, rc |-> ds[i].rc, c |-> ds[i].c]]) :
        ds \in [1..k -> Deltas(st)] }
Windows(st, n, max) ==
    UNION { WindowsOfLen(st, n, k) : k \in { j \in 1..MaxWindow : n + j <= max } }

\* A window without a data line: a keep-alive, or the line break that was
\* cut off the end of the previous window.
BlankWindows == {<<NL>>}

\* The window that holds the event `data: [DONE]`, which an upstream that
\* sent n of at most `max` events may send.
DoneWindows(n, max) == IF n < max THEN {<<DONE, NL, NL>>} ELSE {}

\* The windows without a data line.
NoDataWindows == BlankWindows \cup DoneWindows(0, 1)

\* str.splitlines: the pieces between line breaks, in order; a final line
\* break opens no further line.
FirstBreak(text) ==
    CHOOSE k \in 1..(Len(text) + 1) :
        /\ k = Len(text) + 1 \/ text[k] = NL
        /\ \A j \in 1..(k - 1) : text[j] # NL
RECURSIVE LinesOf(_)
LinesOf(text) ==
    IF text = << >> THEN << >>
    ELSE LET k == FirstBreak(text) IN
         <<SubSeq(text, 1, k - 1)>> \o LinesOf(SubSeq(text, k + 1, Len(text)))

\* lines = chunk_str.splitlines(); for line in lines: ...
splitlines_reversed(chunk_str) ==
    LET ls == LinesOf(chunk_str) IN [i \in 1..Len(ls) |-> ls[Len(ls) + 1 - i]]
splitlines(chunk_str) == LinesOf(chunk_str)

\* if data == "[DONE]": break -- the lines of a window up to its first
\* `data: [DONE]`
IsDone(line) == line = <<DONE>>
BeforeDone(ls) ==
    IF \E i \in 1..Len(ls) : IsDone(ls[i])
    THEN SubSeq(ls, 1, (CHOOSE i \in 1..Len(ls) :
                          IsDone(ls[i]) /\ \A j \in 1..(i - 1) : ~IsDone(ls[j])) - 1)
    ELSE ls

\* Events (data lines and `data: [DONE]`) in the lines of a window.
Events(ls) == Len(SelectSeq(ls, LAMBDA line : line # << >>))

\* data = self.parse_json_line(line); if data is None: continue -- the
\* lines the loop goes on with (blank lines parse to None), as their JSON
\* objects.
IsBlank(line) == line = << >>
\* `if not chunk_str.strip(): continue` of original_stream_chat
IsWhitespace(chunk_str) == \A i \in 1..Len(chunk_str) : chunk_str[i] = NL
parse_json_lines(ls) ==
    LET kept == SelectSeq(BeforeDone(ls), LAMBDA line : ~IsBlank(line))
    IN [i \in 1..Len(kept) |-> kept[i][1]]

\* OpenAIStreamCompletion(id=chat_id, created=created, model=model, ...)
OpenAIStreamCompletion(id, created_time, m, line) ==
    [stage |-> line.stage, seq |-> line.seq, rc |-> line.rc, c |-> line.c,
     id |-> id, created |-> created_time, model |-> m]

\* ---------------------------------------------------------------- registry
\* event = asyncio.Event(); self.cancel_events[request_id] = event
register_cancel_event(events, request_id, r) ==
    [x \in DOMAIN events \cup {request_id} |->
        IF x = request_id THEN r ELSE events[x]]

\* self.cancel_events[request_id].set(): the new value of the flag
set(flag) == TRUE

\* response.release(), and the exit of `async with session.post(...)`
release(resp, st) == [resp EXCEPT ![st] = "released"]

\* ------------------------------------------------------- state of a stream
\* The locals of one request's generators, as one record.
S(r) ==
    [pc |-> pc[r], lines |-> lines[r], sent |-> sent[r],
     blank_windows |-> blank_windows[r], created |-> created[r],
     temp_content |-> temp_content[r], delivered |-> delivered[r],
     outcome |-> outcome[r], response |-> response[r],
     reasoning_cancel_flag |-> reasoning_cancel_flag[r],
     target_cancel_flag |-> target_cancel_flag[r],
     messages |-> messages[r]]

Put(r, s) ==
    /\ pc' = [pc EXCEPT ![r] = s.pc]
    /\ lines' = [lines EXCEPT ![r] = s.lines]
    /\ sent' = [sent EXCEPT ![r] = s.sent]
    /\ blank_windows' = [blank_windows EXCEPT ![r] = s.blank_windows]
    /\ created' = [created EXCEPT ![r] = s.created]
    /\ temp_content' = [temp_content EXCEPT ![r] = s.temp_content]
    /\ delivered' = [delivered EXCEPT ![r] = s.delivered]
    /\ outcome' = [outcome EXCEPT ![r] = s.outcome]
    /\ response' = [response EXCEPT ![r] = s.response]
    /\ reasoning_cancel_flag' = [reasoning_cancel_flag EXCEPT ![r] = s.reasoning_cancel_flag]
    /\ target_cancel_flag' = [target_cancel_flag EXCEPT ![r] = s.target_cancel_flag]
    /\ messages' = [messages EXCEPT ![r] = s.messages]

StageOf(p) ==
    IF p \in ReasoningStates THEN "reasoning"
    ELSE IF p \in TargetStates THEN "target"
    ELSE IF p \in DirectStates THEN "direct"
    ELSE "none"

\* `if cancel_flag and cancel_flag.is_set():` of the chunked-read loop, for
\* the upstream call the stream reads from; the direct paths pass no
\* cancel_flag (None).
make_request_cancelled(s) ==
    CASE StageOf(s.pc) = "reasoning" -> s.reasoning_cancel_flag
      [] StageOf(s.pc) = "target" -> s.target_cancel_flag
      [] OTHER -> FALSE

\* -------------------------------------------------------------- composite
\* `if cancel_flag.is_set():` at the head of the two stage loops
reasoning_cancel_seen(r) == cancel_flag[r]
target_cancel_ignored(r) == FALSE
target_cancel_seen(r) == cancel_flag[r]

\* reasoning_cancel_flag.set() / target_cancel_flag.set(): the new value of
\* the stage's flag
stage_flag_kept(flag) == flag
stage_flag_set(flag) == TRUE

\* `yield chunk`: the chunk the client built from the next line goes to the
\* consumer, and the generator is suspended.
Yield(r, s, m, yielded) ==
    [s EXCEPT !.delivered = Append(@, OpenAIStreamCompletion(chat_id[r], s.created, m, Head(s.lines))),
              !.lines = Tail(@),
              !.pc = yielded]

\* The reasoning client yields a chunk: head of the reasoning loop.
ReasoningChunk(r, s) ==
    IF reasoning_cancel_seen(r)
    THEN [s EXCEPT !.reasoning_cancel_flag = stage_flag_set(@),
                   !.lines = << >>,
                   !.pc = "Done",
                   !.outcome = "cancelled_reasoning"]
    ELSE Yield(r, s, other_params.reasoning_model, "ReasoningYield")

\* The target client yields a chunk: the target loop.
TargetChunk(r, s) ==
    IF target_cancel_seen(r)
    THEN [s EXCEPT !.target_cancel_flag = stage_flag_set(@),
                   !.lines = << >>,
                   !.pc = "Done",
                   !.outcome = "cancelled_target"]
    ELSE Yield(r, s, other_params.target_model, "TargetYield")

\* OpenAICompatibleClient.stream_chat yields a chunk to the consumer, or
\* BaseClient.original_stream_chat the text of the window.
DirectChunk(r, s) ==
    IF kind[r] = "origin"
    THEN [s EXCEPT !.delivered = Append(@, Head(s.lines)),
                   !.lines = Tail(@),
                   !.pc = "DirectYield"]
    ELSE Yield(r, s, model[r], "DirectYield")

\* The client has its next line at hand (no suspension in between): the
\* loop body of whoever iterates the client runs up to its next yield.
NextChunk(r, s) ==
    IF s.lines = << >> THEN s
    ELSE CASE s.pc = "Reasoning" -> ReasoningChunk(r, s)
           [] s.pc = "Target" -> TargetChunk(r, s)
           [] s.pc = "Direct" -> DirectChunk(r, s)

\* `if not temp_content:` after the reasoning loop
temp_content_assumed(s) == FALSE
not_temp_content(s) == s.temp_content = << >>

\* `target_messages and target_messages[-1].get("role") == "user"`
last_message_accepted(r) == TRUE
last_message_is_user(r) == last_role[r] = "user"

\* The messages of a composite request whose last message has role `role`:
\* a system message and the last message, as dicts.
Text(t) == [text |-> t]
RequestMessages(role) ==
    <<[role |-> "system", content |-> Text("s")],
      [role |-> role, content |-> Text("q")]>>
\* No request yet: no dicts, no copy made, no call of the target.
NoMessages == [dicts |-> << >>, target_messages |-> << >>,
               called |-> [model |-> "none", messages |-> << >>]]

\* target_messages = messages.copy(): a new list that holds the same dicts,
\* here as their positions in `dicts`.
copy_of(dicts) == [i \in 1..Len(dicts) |-> i]
\* The dicts a list holds.
Deref(list, dicts) == [i \in 1..Len(list) |-> dicts[list[i]]]

\* fixed_content = f"Here's my original input:\n{original_user_content}
\* \n\n{combined_content}", where combined_content is the fixed text around
\* temp_content.
fixed_content(original_user_content, temp) ==
    [original |-> original_user_content, reasoning |-> temp]

\* target_messages[-1]["content"] = fixed_content: the dict the last place
\* of the list refers to gets the new content.
rewrite_last(m, temp) ==
    LET last == m.target_messages[Len(m.target_messages)] IN
    [m EXCEPT !.dicts[last].content = fixed_content(@, temp)]

\* `if cancel_flag.is_set(): return` between the rewrite and the target
\* stage
handoff_cancel_ignored(r) == FALSE
handoff_cancel_seen(r) == cancel_flag[r]

\* From the exit of the reasoning loop to the first read of the target
\* upstream: the two checks, the rewrite, the hand-off cancel test, and the
\* start of the target client (its `created`, its post).
LoopExit(r, s) ==
    LET copied == [s EXCEPT !.messages.target_messages = copy_of(s.messages.dicts)]
        fixed == [copied EXCEPT !.messages = rewrite_last(@, s.temp_content)]
    IN
    IF not_temp_content(s)
    THEN [s EXCEPT !.pc = "Failed", !.outcome = "no_reasoning", !.lines = << >>]
    ELSE IF ~last_message_is_user(r)
    THEN [copied EXCEPT !.pc = "Failed", !.outcome = "no_user", !.lines = << >>]
    ELSE IF handoff_cancel_seen(r)
    THEN [fixed EXCEPT !.pc = "Done", !.outcome = "cancelled_handoff", !.lines = << >>]
    ELSE [fixed EXCEPT !.pc = "Target",
                   !.lines = << >>,
                   !.sent = 0,
                   !.target_cancel_flag = FALSE,
                   !.created = CreatedTime(clock),
                   !.response = [@ EXCEPT !["target"] = "open"],
                   !.messages.called =
                       [model |-> other_params.target_model,
                        messages |-> Deref(fixed.messages.target_messages,
                                           fixed.messages.dicts)]]

\* `if content:` of the reasoning loop: the chunk carries answer text
content_ignored(chunk) == FALSE
content_seen(chunk) == chunk.c

\* `if reasoning_content: temp_content += reasoning_content`
replace_reasoning(temp, chunk) == IF chunk.rc THEN <<chunk.seq>> ELSE temp
add_reasoning(temp, chunk) == IF chunk.rc THEN Append(temp, chunk.seq) ELSE temp

\* `break` of the reasoning loop: the reasoning client is not iterated any
\* more and the code after the loop runs.
keep_reading(r, s) == NextChunk(r, [s EXCEPT !.pc = "Reasoning"])
loop_break(r, s) == LoopExit(r, s)

\* The rest of the reasoning loop body after `yield chunk`: accumulation
\* and boundary detection.
ReasoningBody(r, s) ==
    LET chunk == s.delivered[Len(s.delivered)]
        s1 == [s EXCEPT !.temp_content = add_reasoning(@, chunk)]
    IN IF content_seen(chunk)
       THEN loop_break(r, [s1 EXCEPT !.reasoning_cancel_flag = stage_flag_set(@)])
       ELSE NextChunk(r, [s1 EXCEPT !.pc = "Reasoning"])

GatewayInit ==
    /\ clock = 0
    /\ other_params \in [reasoning_model : ReasonerModels, target_model : GeneralModels]
    /\ cancel_events = << >>
    /\ pc = [r \in Req |-> "New"]
    /\ kind = [r \in Req |-> "none"]
    /\ chat_id = [r \in Req |-> NoChatId]
    /\ model = [r \in Req |-> "none"]
    /\ last_role = [r \in Req |-> "user"]
    /\ messages = [r \in Req |-> NoMessages]
    /\ cancel_flag = [r \in Req |-> FALSE]
    /\ reasoning_cancel_flag = [r \in Req |-> FALSE]
    /\ target_cancel_flag = [r \in Req |-> FALSE]
    /\ response = [r \in Req |-> [st \in Stages |-> "none"]]
    /\ lines = [r \in Req |-> << >>]
    /\ sent = [r \in Req |-> 0]
    /\ blank_windows = [r \in Req |-> 0]
    /\ created = [r \in Req |-> 0]
    /\ temp_content = [r \in Req |-> << >>]
    /\ delivered = [r \in Req |-> << >>]
    /\ outcome = [r \in Req |-> "none"]

\* ------------------------------------------------------ one upstream call
\* Python's None, and the SystemSetting objects get_all_settings may hold
\* under "proxy_address".
PyNone == [type |-> "NoneType"]
ProxySettings ==
    { [type |-> "SystemSetting", setting_value |-> v] :
        v \in {"", "127.0.0.1:7890", "http://127.0.0.1:7890"} }
DefaultProxySetting == [type |-> "SystemSetting", setting_value |-> "127.0.0.1:7890"]

\* Status codes an upstream answers with.
UpstreamStatuses == {200, 400, 429, 500}
\* response.ok
ok(status) == status < 400

NoCall ==
    [pc |-> "none", is_proxy_open |-> FALSE, proxy |-> PyNone, stream |-> FALSE,
     proxy_url |-> [type |-> "unset"], upstream_status |-> 0, exc |-> "none",
     http_status |-> 0, n |-> 0]

NoExtraction == [text |-> << >>, deltas |-> << >>, emitted |-> << >>, exc |-> "none"]

\* The tables right after _init_db, and no call made yet.
EmptyStore == [providers |-> {}, models |-> {}, composite_models |-> {}, uuid |-> 0]
NoReply == [op |-> "none"]
NoFraming == [pc |-> "none"]
NoChain == [pc |-> "none"]
NoPool == [pool |-> << >>]

AsideInit ==
    /\ connector = "open"
    /\ config = DefaultProxySetting
    /\ call = NoCall
    /\ extraction = NoExtraction
    /\ store = EmptyStore
    /\ reply = NoReply
    /\ framing = NoFraming
    /\ chain = NoChain
    /\ pool = NoPool

Init == GatewayInit /\ AsideInit

\* isproxy_open = self.config.get("proxy_address") if provider.is_proxy_open
\* else None
proxy_whatever_flag(is_proxy_open, setting) == setting
isproxy_open(is_proxy_open, setting) == IF is_proxy_open THEN setting ELSE PyNone

\* BaseClient._get_proxy_url: None for a falsy proxy, the address (with a
\* scheme put in front if it has none) for a string; anything else has no
\* startswith.
get_proxy_url(proxy) ==
    CASE proxy.type = "NoneType" -> PyNone
      [] proxy.type = "str" ->
            IF proxy.value = "" THEN PyNone
            ELSE [type |-> "str", scheme |-> TRUE, value |-> proxy.value]
      [] OTHER -> [type |-> "AttributeError"]

\* ClientSession.__aexit__: the session closes the connector it owns.
session_exit(conn, connector_owner) == IF connector_owner THEN "closed" ELSE conn

\* handle_all_client_errors: whatever was raised leaves as aiohttp's
\* ClientError, with the status only inside its message.
handle_all_client_errors(e) == "ClientError"

\* main.chat_completions: status of the answer when process_request raised
\* an exception of type e (status_code: that of a ClientAPIError).
chat_completions(e, status_code) ==
    CASE e = "ValueError" -> HTTP_BAD_REQUEST
      [] e = "ClientAPIError" -> status_code
      [] OTHER -> HTTP_INTERNAL_ERROR

\* ModelManager.create_instance for a direct request, streaming or not.
create_instance(is_proxy_open, stream) ==
    /\ call.pc \in {"none", "answered"}
    /\ call.n < MaxCalls
    /\ call' = [NoCall EXCEPT !.pc = "built",
                              !.is_proxy_open = is_proxy_open,
                              !.proxy = isproxy_open(is_proxy_open, config),
                              !.stream = stream,
                              !.n = call.n + 1]
    /\ UNCHANGED <<GatewayVars, connector, config, extraction, store, reply, framing, chain, pool>>

\* A call that ends with exception e before or instead of an upstream
\* answer.  A stream's answer has started (200) when its generator first
\* runs; a non-streaming call's exception reaches chat_completions.
Raised(c, e) ==
    [c EXCEPT !.pc = "answered",
              !.exc = e,
              !.http_status = IF c.stream THEN HTTP_OK
                              ELSE chat_completions(e, HTTP_INTERNAL_ERROR)]

\* _make_request / _make_non_streaming_request up to the post: the proxy
\* url, the session on the shared connector, the post.
Post ==
    /\ call.pc = "built"
    /\ LET u == get_proxy_url(call.proxy) IN
       IF u.type = "AttributeError"
       THEN /\ call' = Raised(call, IF call.stream THEN "AttributeError"
                                    ELSE handle_all_client_errors("AttributeError"))
            /\ UNCHANGED connector
       ELSE IF connector = "closed"
       THEN /\ call' = Raised(call, handle_all_client_errors("ClientConnectionError"))
            /\ connector' = session_exit(connector, ~call.stream)
       ELSE /\ call' = [call EXCEPT !.pc = "posted",
                                    !.proxy_url = u,
                                    !.http_status = IF call.stream THEN HTTP_OK ELSE 0]
            /\ UNCHANGED connector
    /\ UNCHANGED <<GatewayVars, config, extraction, store, reply, framing, chain, pool>>

\* The upstream answers with a status: `if not response.ok: raise
\* ClientError(...)`, else the body is read (non-streaming) or streamed.
Respond(status) ==
    /\ call.pc = "posted"
    /\ LET c == [call EXCEPT !.upstream_status = status] IN
       IF ~ok(status)
       THEN /\ call' = Raised(c, handle_all_client_errors("ClientError"))
            /\ connector' = session_exit(connector, ~call.stream)
       ELSE IF call.stream
       THEN /\ call' = [c EXCEPT !.pc = "streaming"]
            /\ UNCHANGED connector
       ELSE /\ call' = [c EXCEPT !.pc = "answered", !.http_status = HTTP_OK]
            /\ connector' = session_exit(connector, TRUE)
    /\ UNCHANGED <<GatewayVars, config, extraction, store, reply, framing, chain, pool>>

\* The post or a read times out or the connection breaks.
TransportError ==
    /\ call.pc \in {"posted", "streaming"}
    /\ call' = Raised(call, handle_all_client_errors("ServerTimeoutError"))
    /\ connector' = session_exit(connector, ~call.stream)
    /\ UNCHANGED <<GatewayVars, config, extraction, store, reply, framing, chain, pool>>

\* A streaming call ends: the body is exhausted, the read loop saw the
\* cancel flag, or the generator was closed.
StreamCallEnd ==
    /\ call.pc = "streaming"
    /\ call' = [call EXCEPT !.pc = "answered"]
    /\ connector' = session_exit(connector, FALSE)
    /\ UNCHANGED <<GatewayVars, config, extraction, store, reply, framing, chain, pool>>

\* ------------------------------------------ embedded-reasoning extraction
\* Text is a sequence of characters.
OpenMark == <<"<", "t", "h", "i", "n", "k", ">">>
CloseMark == <<"<", "/", "t", "h", "i", "n", "k", ">">>
Segments == {OpenMark, CloseMark, <<"a">>, <<"b">>}

RECURSIVE Concat(_)
Concat(ss) == IF ss = << >> THEN << >> ELSE Head(ss) \o Concat(Tail(ss))

\* The texts an upstream may send, and the ways it may cut a text into at
\* most k non-empty content deltas.
Texts == { Concat(segs) : segs \in UNION { [1..n -> Segments] : n \in 0..MaxSegments } }
RECURSIVE Splittings(_, _)
Splittings(text, k) ==
    IF text = << >> THEN {<< >>}
    ELSE IF k = 1 THEN {<<text>>}
    ELSE UNION { { <<SubSeq(text, 1, i)>> \o rest :
                     rest \in Splittings(SubSeq(text, i + 1, Len(text)), k - 1) } :
                 i \in 1..Len(text) }

\* `"<think>" in content`
Contains(sub, text) ==
    \E i \in 1..(Len(text) - Len(sub) + 1) : SubSeq(text, i, i + Len(sub) - 1) = sub

\* self.format_openai_compatible_stream_response(chat_id, created_time,
\* model, content=, reasoning_content=): neither DeepSeekClient nor
\* BaseClient has such an attribute, so evaluating the call raises.
AttributeError == [type |-> "AttributeError"]
format_openai_compatible_stream_response(content, reasoning_content) ==
    AttributeError

\* What DeepSeekClient.stream_chat evaluates, in order, as the operands of
\* its yields for one data line whose delta.content is `content`, in the
\* branch is_origin_reasoning=False.  The two locals are assigned at the
\* head of that branch, for every line.
stream_chat_delta(content) ==
    LET accumulated_content == << >>
        is_collecting_think == FALSE
    IN IF content = << >> THEN << >>
       ELSE IF Contains(OpenMark, content) /\ ~is_collecting_think
       THEN <<format_openai_compatible_stream_response(<< >>, content)>>
       ELSE IF is_collecting_think
       THEN IF Contains(CloseMark, content)
            THEN <<format_openai_compatible_stream_response(<< >>, content),
                   format_openai_compatible_stream_response(<< >>, << >>)>>
            ELSE <<format_openai_compatible_stream_response(<< >>, content)>>
       ELSE <<format_openai_compatible_stream_response(content, << >>)>>

\* The chunks that reach the consumer: those before the first operand that
\* raised.
Raises(operands) == \E i \in 1..Len(operands) : operands[i] = AttributeError
RECURSIVE Yielded(_)
Yielded(operands) ==
    IF operands = << >> \/ Head(operands) = AttributeError THEN << >>
    ELSE <<Head(operands)>> \o Yielded(Tail(operands))

\* `except Exception as e: raise ClientError(error_msg) from e`
stream_chat_except(e) == "ClientError"

\* The upstream's next data line arrives; its chunks are yielded, or the
\* generator ends with the exception its handler raises.
ThinkDelta ==
    /\ extraction.deltas # << >>
    /\ extraction.exc = "none"
    /\ LET operands == stream_chat_delta(Head(extraction.deltas))
       IN extraction' = [extraction EXCEPT
                           !.deltas = Tail(@),
                           !.emitted = @ \o Yielded(operands),
                           !.exc = IF Raises(operands)
                                   THEN stream_chat_except(AttributeError)
                                   ELSE "none"]
    /\ UNCHANGED <<GatewayVars, connector, config, call, store, reply, framing, chain, pool>>

\* The values delta.get("content") and delta.get("reasoning_content") may
\* have: the key is absent (None), an empty string, a text.
FieldValues == {"None", "", "x"}
OriginDeltas == [content : FieldValues, reasoning_content : FieldValues]
\* Truth value of a field: None and "" are falsy.
truthy(value) == value \notin {"None", ""}

\* What DeepSeekClient.stream_chat evaluates, in order, as the operands of
\* its yields for one data line in the branch is_origin_reasoning=True.
stream_chat_origin_delta(delta) ==
    (IF truthy(delta.reasoning_content)
     THEN <<format_openai_compatible_stream_response("", delta.reasoning_content)>>
     ELSE << >>)
    \o (IF delta.reasoning_content = "None" /\ truthy(delta.content)
        THEN <<format_openai_compatible_stream_response(delta.content, "None")>>
        ELSE << >>)

\* The upstream's next data line arrives at a client of an origin-reasoning
\* model.
OriginDelta ==
    /\ extraction.deltas # << >>
    /\ extraction.exc = "none"
    /\ LET operands == stream_chat_origin_delta(Head(extraction.deltas))
       IN extraction' = [extraction EXCEPT
                           !.text = Append(@, Head(extraction.deltas)),
                           !.deltas = Tail(@),
                           !.emitted = @ \o Yielded(operands),
                           !.exc = IF Raises(operands)
                                   THEN stream_chat_except(AttributeError)
                                   ELSE "none"]
    /\ UNCHANGED <<GatewayVars, connector, config, call, store, reply, framing, chain, pool>>

\* ----------------------------------------------------------- line framing
\* The text of a response body, as the pieces a read window may end
\* between: the two halves of the prefix `data: `, the braces of a JSON
\* object and what is between them, the payload `[DONE]`, the line break.
Ch(c) == [ch |-> c]
DataPrefix == <<Ch("da"), Ch("ta: ")>>
DonePayload == <<Ch("[DONE]")>>
\* The data line of the k-th event of a body (its object has "id": k), and
\* the line `data: [DONE]`.
DataLine(k) == DataPrefix \o <<Ch("{"), [id |-> k], Ch("}")>>
DoneLine == DataPrefix \o DonePayload
\* A data line whose payload is no JSON: the object of the k-th event
\* without its closing brace.
MalformedLine(k) == DataPrefix \o <<Ch("{"), [id |-> k]>>

\* The bodies an upstream may send: each event is a data line, a data line
\* with a malformed payload or `data: [DONE]`, followed by the blank line
\* that ends it.
EventKinds == {"data", "malformed", "done"}
EventSeqs == UNION { [1..n -> EventKinds] : n \in 1..MaxEvents }
RECURSIVE BodyText(_, _)
BodyText(events, k) ==
    IF k > Len(events) THEN << >>
    ELSE (CASE events[k] = "data" -> DataLine(k)
            [] events[k] = "malformed" -> MalformedLine(k)
            [] events[k] = "done" -> DoneLine)
            \o <<NL, NL>> \o BodyText(events, k + 1)

\* json.loads(json_str): the object of a whole `{...}`; any other text here
\* (a piece of an object, a piece of the prefix, `[DONE]`) is no JSON.
JSONDecodeError == [type |-> "JSONDecodeError"]
json_loads(json_str) ==
    IF /\ Len(json_str) = 3
       /\ json_str[1] = Ch("{")
       /\ "id" \in DOMAIN json_str[2]
       /\ json_str[3] = Ch("}")
    THEN [type |-> "dict", id |-> json_str[2].id]
    ELSE JSONDecodeError

\* line = line.strip(); line.startswith("data: "): the blank of the prefix
\* is stripped off a line that ends with it.
startswith_data(line) == Len(line) > 2 /\ SubSeq(line, 1, 2) = DataPrefix

\* BaseClient.parse_json_line
DoneStr == [type |-> "str", value |-> "[DONE]"]
parse_json_line(line) ==
    IF line = << >> THEN PyNone
    ELSE LET json_str == IF startswith_data(line) THEN SubSeq(line, 3, Len(line))
                         ELSE line
         IN IF startswith_data(line) /\ json_str = DonePayload THEN DoneStr
            ELSE IF json_loads(json_str) = JSONDecodeError THEN PyNone
            ELSE json_loads(json_str)

\* OpenAIStreamCompletion(..., provider_chat_id=data.get("id"), ...)
completion(data) == [provider_chat_id |-> data.id]

\* `if data == "[DONE]": break` of OpenAICompatibleClient.stream_chat: the
\* loop over the lines of the window yields nothing for the lines after it.
\* The loop over the windows goes on.
break_line_loop(rest) == << >>

\* `for line in lines:` of OpenAICompatibleClient.stream_chat, as the chunks
\* it yields for one window.
RECURSIVE openai_line_loop(_)
openai_line_loop(ls) ==
    IF ls = << >> THEN << >>
    ELSE LET data == parse_json_line(Head(ls)) IN
         IF data = PyNone THEN openai_line_loop(Tail(ls))
         ELSE IF data = DoneStr THEN break_line_loop(Tail(ls))
         ELSE <<completion(data)>> \o openai_line_loop(Tail(ls))

\* The loop reached its `break`.
done_read(ls) == \E i \in 1..Len(ls) : parse_json_line(ls[i]) = DoneStr

\* `for line in lines:` of ClaudeClient.stream_chat on content deltas: it
\* has no test for `[DONE]`, which Anthropic's stream does not send.
RECURSIVE claude_line_loop(_)
claude_line_loop(ls) ==
    IF ls = << >> THEN << >>
    ELSE LET data == parse_json_line(Head(ls)) IN
         IF data = PyNone THEN claude_line_loop(Tail(ls))
         ELSE <<completion(data)>> \o claude_line_loop(Tail(ls))

line_loop(client, ls) ==
    IF client = "openai" THEN openai_line_loop(ls) ELSE claude_line_loop(ls)

FramingFrame == <<GatewayVars, connector, config, call, extraction, store, reply, chain, pool>>

\* `async for chunk in self._make_request(...)`: the next window arrives, is
\* decoded and split into lines, and the line loop runs over them.
FrameRead ==
    /\ framing.pc = "reading"
    /\ framing.windows # << >>
    /\ LET ls == splitlines(Head(framing.windows)) IN
       framing' = [framing EXCEPT
                     !.windows = Tail(@),
                     !.emitted = @ \o line_loop(framing.client, ls),
                     !.done = @ \/ (framing.client = "openai" /\ done_read(ls))]
    /\ UNCHANGED FramingFrame

\* The body is exhausted: _make_request ends, and so does stream_chat.
FrameEnd ==
    /\ framing.pc = "reading"
    /\ framing.windows = << >>
    /\ framing' = [framing EXCEPT !.pc = "ended"]
    /\ UNCHANGED FramingFrame

\* ------------------------------------------------------------- read loop
\* The windows response.content.iter_chunked hands to the read loop of
\* _make_request, numbered in order; a window may be empty.
ReadWindows ==
    UNION { { [i \in 1..n |-> [seq |-> i, empty |-> e[i]]] : e \in [1..n -> BOOLEAN] } :
            n \in 1..MaxReads }

\* `if cancel_flag and cancel_flag.is_set():`
cancel_not_tested(flag) == FALSE
cancel_is_set(flag) == flag

\* Whoever holds the cancel flag sets it.
SetCancelFlag ==
    /\ framing.pc \in {"reading", "yielded"}
    /\ ~framing.cancel_flag
    /\ framing' = [framing EXCEPT !.cancel_flag = TRUE]
    /\ UNCHANGED FramingFrame

\* The body of `async for chunk in response.content.iter_chunked(...)` on
\* the next window: the cancel test (release and break, after which the
\* `async with` blocks are left and the generator ends), the filter of
\* empty windows, the yield.
ReadLoop ==
    /\ framing.pc = "reading"
    /\ framing.windows # << >>
    /\ framing' =
         IF cancel_is_set(framing.cancel_flag)
         THEN [framing EXCEPT !.pc = "ended", !.response = "released", !.windows = Tail(@)]
         ELSE IF Head(framing.windows).empty
         THEN [framing EXCEPT !.windows = Tail(@)]
         ELSE [framing EXCEPT !.pc = "yielded", !.windows = Tail(@),
                              !.emitted = Append(@, Head(framing.windows))]
    /\ UNCHANGED FramingFrame

\* The consumer asks for the next window: the generator resumes after its
\* yield.
ReadResume ==
    /\ framing.pc = "yielded"
    /\ framing' = [framing EXCEPT !.pc = "reading"]
    /\ UNCHANGED FramingFrame

\* The body is exhausted: the `async with` blocks release the response and
\* the generator ends.
ReadExhausted ==
    /\ framing.pc = "reading"
    /\ framing.windows = << >>
    /\ framing' = [framing EXCEPT !.pc = "ended", !.response = "released"]
    /\ UNCHANGED FramingFrame

\* A read fails: the `async with` blocks release the response and
\* handle_all_client_errors raises.
ReadError ==
    /\ framing.pc = "reading"
    /\ framing' = [framing EXCEPT !.pc = "failed", !.response = "released",
                                  !.exc = handle_all_client_errors("ServerTimeoutError")]
    /\ UNCHANGED FramingFrame

\* ------------------------------------------------------------ model chain
ChainFrame == <<GatewayVars, connector, config, call, extraction, store, reply,
                framing, pool>>

\* The k-th item a processor puts on context.output_queue, and the error
\* response of ModelChain.process.
Item(k) == [item |-> k]
ErrorResponse == [error |-> TRUE]

\* ModelChain.process after its loop: the error response if the context has
\* an error, then `data: [DONE]`.
chain_tail(c) ==
    [c EXCEPT !.pc = "done",
              !.yielded = @ \o (IF c.error THEN <<ErrorResponse>> ELSE << >>) \o <<DONE>>]

\* `while not context.completed and not context.is_error():` -- the test;
\* if it passes the loop waits for the queue. Nothing is awaited between the
\* end of one round and the wait of the next.
chain_loop(c) ==
    IF c.completed \/ c.error THEN chain_tail(c) ELSE [c EXCEPT !.pc = "waiting"]

\* `item = await asyncio.wait_for(context.output_queue.get(), timeout=0.1)`
\* gets an item; `yield item`.
ChainGet ==
    /\ chain.pc = "waiting"
    /\ chain.queue # << >>
    /\ chain' = [chain EXCEPT !.pc = "yielded",
                              !.queue = Tail(@),
                              !.yielded = Append(@, Head(chain.queue))]
    /\ UNCHANGED ChainFrame

\* The wait times out on an empty queue: `if processing_task.done(): ...
\* break` (process_chain catches every exception, so the task has none), else
\* the loop goes round.
ChainTimeout ==
    /\ chain.pc = "waiting"
    /\ chain.queue = << >>
    /\ chain' = IF chain.task = "done" THEN chain_tail(chain)
                ELSE chain_loop(chain)
    /\ UNCHANGED ChainFrame

\* The caller asks for the next item: the generator resumes after its yield
\* and the loop goes round.
ChainResume ==
    /\ chain.pc = "yielded"
    /\ chain' = chain_loop(chain)
    /\ UNCHANGED ChainFrame

\* ResponseProcessor.process: the client yields a response with content,
\* which is put on the output queue (the queue is unbounded).
ChainPut ==
    /\ chain.task = "running"
    /\ chain.todo > 0
    /\ chain' = [chain EXCEPT !.todo = @ - 1,
                              !.put = @ + 1,
                              !.queue = Append(@, Item(chain.put + 1))]
    /\ UNCHANGED ChainFrame

\* The client's stream has ended: `context.completed = True`, and the
\* processing task finishes.
ChainComplete ==
    /\ chain.task = "running"
    /\ chain.todo = 0
    /\ chain' = [chain EXCEPT !.completed = TRUE, !.task = "done"]
    /\ UNCHANGED ChainFrame

\* The client raises: context.set_error(...), and process_chain catches what
\* the processor re-raises.
ChainFail ==
    /\ chain.task = "running"
    /\ chain' = [chain EXCEPT !.error = TRUE, !.task = "done"]
    /\ UNCHANGED ChainFrame

\* -------------------------------------------------------- connection pool
PoolFrame == <<GatewayVars, connector, config, call, extraction, store, reply,
               framing, chain>>

\* The pool's slot indexes; the threads, each running one `with DBConnection`,
\* one more than there are slots so that a thread can find none available.
Slots == 0..(MaxConnections - 1)
Threads == 1..(MaxConnections + 1)

\* The k-th sqlite3.Connection object the pool creates.
Connection(k) == [conn |-> k]

\* DBConnection.__init__: no connection yet.
NewContext == [pc |-> "new", conn |-> PyNone, slot |-> -1, wait_time |-> 0,
               ended |-> "none"]

Member(list, x) == \E k \in 1..Len(list) : list[k] = x

\* release_connection without its effect on the pool.
release_nothing(p, conn) == p

\* SQLiteConnectionPool.release_connection: the first slot holding this very
\* object is put back on `available` unless already there and marked not in
\* use; an object of no slot changes nothing.
release_connection(p, conn) ==
    IF \E i \in Slots : p.pool[i] = conn
    THEN LET i == CHOOSE j \in Slots :
                      p.pool[j] = conn /\ \A k \in Slots : p.pool[k] = conn => j <= k
         IN [p EXCEPT !.available = IF Member(@, i) THEN @ ELSE Append(@, i),
                      !.in_use[i] = FALSE]
    ELSE p

\* DBConnection.__enter__ calls get_connection: wait_time = 0.
enter(t) ==
    /\ pool.ctx[t].pc = "new"
    /\ pool' = [pool EXCEPT !.ctx[t].pc = "getting", !.ctx[t].wait_time = 0]
    /\ UNCHANGED PoolFrame

\* One round of get_connection's loop under the lock: pop the first available
\* index; create the connection if the slot has none or its check fails; a
\* failed creation puts the index back and waits; otherwise mark the slot in
\* use and return its connection. No available index: wait and retry.
get_connection_round(t) ==
    /\ pool.ctx[t].pc = "getting"
    /\ pool.ctx[t].wait_time < MaxRetries
    /\ \E valid \in BOOLEAN, connected \in BOOLEAN :
          IF pool.available # << >>
          THEN LET index == Head(pool.available)
                   create == pool.pool[index] = PyNone \/ ~valid
               IN
               IF create /\ ~connected
               THEN pool' = [pool EXCEPT !.available = Append(Tail(@), index),
                                         !.ctx[t].wait_time = @ + 1]
               ELSE LET conn == IF create THEN Connection(pool.created + 1)
                                ELSE pool.pool[index]
                    IN pool' = [pool EXCEPT !.available = Tail(@),
                                            !.pool[index] = conn,
                                            !.created = IF create THEN @ + 1 ELSE @,
                                            !.in_use[index] = TRUE,
                                            !.ctx[t].conn = conn,
                                            !.ctx[t].slot = index,
                                            !.ctx[t].pc = "entered"]
          ELSE pool' = [pool EXCEPT !.ctx[t].wait_time = @ + 1]
    /\ UNCHANGED PoolFrame

\* `while wait_time < max_wait` ends: get_connection returns None, and
\* __enter__ returns the context without a connection.
get_connection_timeout(t) ==
    /\ pool.ctx[t].pc = "getting"
    /\ pool.ctx[t].wait_time >= MaxRetries
    /\ pool' = [pool EXCEPT !.ctx[t].conn = PyNone, !.ctx[t].pc = "entered"]
    /\ UNCHANGED PoolFrame

\* DBConnection.__exit__: with a connection, roll back if the body raised,
\* commit otherwise (a sqlite3.Error of either is logged), then release the
\* connection; without one, nothing.
exit(t) ==
    /\ pool.ctx[t].pc = "entered"
    /\ \E exc_type \in BOOLEAN :
          LET conn == pool.ctx[t].conn
              released == IF conn # PyNone THEN release_connection(pool, conn) ELSE pool
          IN pool' = [released EXCEPT
                         !.ctx[t].pc = "exited",
                         !.ctx[t].conn = PyNone,
                         !.ctx[t].slot = -1,
                         !.ctx[t].wait_time = 0,
                         !.ctx[t].ended = IF conn = PyNone THEN "no_connection"
                                          ELSE IF exc_type THEN "rollback" ELSE "commit"]
    /\ UNCHANGED PoolFrame

\* SQLiteConnectionPool.close_all: every connection closed and its slot set
\* to None, `available` and `in_use` reset.
close_all ==
    /\ pool.pc = "open"
    /\ pool' = [pool EXCEPT !.pool = [i \in Slots |-> PyNone],
                            !.available = [k \in 1..MaxConnections |-> k - 1],
                            !.in_use = [i \in Slots |-> FALSE]]
    /\ UNCHANGED PoolFrame

\* ------------------------------------------------- configuration store
\* str(uuid.uuid4()): the n-th id handed out; no two are the same.
UuidPool == <<"u1", "u2", "u3", "u4", "u5">>
uuid4(n) == UuidPool[n]
Uuids == { uuid4(n) : n \in 1..MaxUuids }

\* An argument left out or given as None / "" (both are falsy).
Falsy == ""
\* An id no row has (never handed out, or of a row since deleted).
NoSuchId == "u0"
\* Names an administrator gives to models and composites, and to providers
\* (nothing keeps a provider from being named like an id).
ModelNames == {"a", "b"}
ProviderNames == {"p", uuid4(1)}

\* fetchone(): a row of the result, None when there is none.
fetchone(rows) == IF rows = {} THEN PyNone ELSE CHOOSE row \in rows : TRUE

\* DBManager.get_provider(provider_name=None, provider_id=None)
get_provider(provider_name, provider_id) ==
    fetchone({ row \in store.providers :
                 /\ provider_name # Falsy => row.provider_name = provider_name
                 /\ provider_id # Falsy => row.id = provider_id })

\* DBManager.get_model(model_name=None, models_id=None, is_valid=None)
valid_filter(row, is_valid) == is_valid => row.is_valid
get_model(model_name, models_id, is_valid) ==
    fetchone({ row \in store.models :
                 /\ model_name # Falsy => row.model_name = model_name
                 /\ models_id # Falsy => row.id = models_id
                 /\ valid_filter(row, is_valid) })

\* DBManager.get_composite_model(model_name=None, composite_models_id=None,
\* is_valid=None)
get_composite_model(model_name, composite_models_id, is_valid) ==
    fetchone({ row \in store.composite_models :
                 /\ model_name # Falsy => row.model_name = model_name
                 /\ composite_models_id # Falsy => row.id = composite_models_id
                 /\ valid_filter(row, is_valid) })

\* What an administrator may send: a new row (id left out) or the id of a
\* row of the table; a reference to a row or to none.  The rows' other
\* columns (model_type is reasoner or general) are not read by what follows.
Ids(rows) == { row.id : row \in rows }
ProviderConfigs ==
    [id : {Falsy} \cup Uuids, provider_name : ProviderNames]
ModelConfigs ==
    [id : {Falsy} \cup Uuids, model_name : ModelNames,
     provider_id : Uuids \cup {NoSuchId}, is_valid : BOOLEAN]
CompositeModelConfigs ==
    [id : {Falsy} \cup Uuids, model_name : ModelNames,
     reasoner_model_id : Uuids \cup {NoSuchId},
     general_model_id : Uuids \cup {NoSuchId}, is_valid : BOOLEAN]
Sendable(c, rows, refs) ==
    /\ c.id \in {Falsy} \cup Ids(rows)
    /\ \A f \in DOMAIN c :
          f \in {"provider_id", "reasoner_model_id", "general_model_id"}
              => c[f] \in refs \cup {NoSuchId}

\* UPDATE ... WHERE id = :id and INSERT on one table.
Update(rows, cfg) == { IF row.id = cfg.id THEN cfg ELSE row : row \in rows }
Insert(rows, cfg, id) == rows \cup {[cfg EXCEPT !.id = id]}

\* How a call on the store ended: what it was given (a config or an id) and
\* the exception it raised.
Answer(op, arg, exc) == [op |-> op, arg |-> arg, exc |-> exc]

\* Calls are answered one at a time: none of these handlers awaits anything
\* before its answer is decided.
Idle == reply = NoReply

\* The answer of the last call has been sent.
Answered ==
    /\ reply # NoReply
    /\ reply' = NoReply
    /\ UNCHANGED <<GatewayVars, connector, config, call, extraction, store, framing, chain, pool>>

AdminFrame == <<GatewayVars, connector, config, call, extraction, framing, chain, pool>>

\* DBManager.save_provider
save_provider(c) ==
    /\ Idle
    /\ Sendable(c, store.providers, {})
    /\ LET existing == get_provider(c.provider_name, Falsy) IN
       IF existing # PyNone /\ existing.id # c.id
       THEN /\ reply' = Answer("save_provider", c, "DBManagerError")
            /\ UNCHANGED store
       ELSE IF c.id # Falsy
       THEN /\ store' = [store EXCEPT !.providers = Update(@, c)]
            /\ reply' = Answer("save_provider", c, "none")
       ELSE /\ store.uuid < MaxUuids
            /\ store' = [store EXCEPT !.uuid = @ + 1,
                                      !.providers = Insert(@, c, uuid4(store.uuid + 1))]
            /\ reply' = Answer("save_provider", c, "none")
    /\ UNCHANGED AdminFrame

\* FOREIGN KEY (provider_id) REFERENCES providers(id), with
\* PRAGMA foreign_keys = ON
provider_exists(provider_id) == \E row \in store.providers : row.id = provider_id
\* FOREIGN KEY (reasoner_model_id / general_model_id) REFERENCES models(id)
model_exists(models_id) == \E row \in store.models : row.id = models_id

\* DBManager.save_model: the name is looked up among the models only.
save_model(c) ==
    /\ Idle
    /\ Sendable(c, store.models, Ids(store.providers))
    /\ LET existing == get_model(c.model_name, Falsy, FALSE) IN
       IF existing # PyNone /\ existing.id # c.id
       THEN /\ reply' = Answer("save_model", c, "DBManagerError")
            /\ UNCHANGED store
       ELSE IF ~provider_exists(c.provider_id)
       THEN /\ reply' = Answer("save_model", c, "IntegrityError")
            /\ UNCHANGED store
       ELSE IF c.id # Falsy
       THEN /\ store' = [store EXCEPT !.models = Update(@, c)]
            /\ reply' = Answer("save_model", c, "none")
       ELSE /\ store.uuid < MaxUuids
            /\ store' = [store EXCEPT !.uuid = @ + 1,
                                      !.models = Insert(@, c, uuid4(store.uuid + 1))]
            /\ reply' = Answer("save_model", c, "none")
    /\ UNCHANGED AdminFrame

\* DBManager.save_composite_model: the name is looked up among the
\* composites only.
save_composite_model(c) ==
    /\ Idle
    /\ Sendable(c, store.composite_models, Ids(store.models))
    /\ LET existing == get_composite_model(c.model_name, Falsy, FALSE) IN
       IF existing # PyNone /\ existing.id # c.id
       THEN /\ reply' = Answer("save_composite_model", c, "DBManagerError")
            /\ UNCHANGED store
       ELSE IF ~model_exists(c.reasoner_model_id) \/ ~model_exists(c.general_model_id)
       THEN /\ reply' = Answer("save_composite_model", c, "IntegrityError")
            /\ UNCHANGED store
       ELSE IF c.id # Falsy
       THEN /\ store' = [store EXCEPT !.composite_models = Update(@, c)]
            /\ reply' = Answer("save_composite_model", c, "none")
       ELSE /\ store.uuid < MaxUuids
            /\ store' = [store EXCEPT !.uuid = @ + 1,
                                      !.composite_models = Insert(@, c, uuid4(store.uuid + 1))]
            /\ reply' = Answer("save_composite_model", c, "none")
    /\ UNCHANGED AdminFrame

\* SELECT COUNT(*) ... WHERE provider_id = ?  and  ... WHERE
\* general_model_id = ? OR reasoner_model_id = ?
no_dependents(id) == 0
models_of_provider(provider_id) ==
    Cardinality({ row \in store.models : row.provider_id = provider_id })
composites_of_model(models_id) ==
    Cardinality({ row \in store.composite_models :
                    row.general_model_id = models_id \/ row.reasoner_model_id = models_id })

\* DBManager.delete_provider
delete_provider(provider_id) ==
    /\ Idle
    /\ IF models_of_provider(provider_id) > 0
       THEN /\ reply' = Answer("delete_provider", provider_id, "DBManagerError")
            /\ UNCHANGED store
       ELSE /\ store' = [store EXCEPT !.providers = { row \in @ : row.id # provider_id }]
            /\ reply' = Answer("delete_provider", provider_id, "none")
    /\ UNCHANGED AdminFrame

\* DBManager.delete_model
delete_model(models_id) ==
    /\ Idle
    /\ IF composites_of_model(models_id) > 0
       THEN /\ reply' = Answer("delete_model", models_id, "DBManagerError")
            /\ UNCHANGED store
       ELSE /\ store' = [store EXCEPT !.models = { row \in @ : row.id # models_id }]
            /\ reply' = Answer("delete_model", models_id, "none")
    /\ UNCHANGED AdminFrame

\* DBManager.delete_composite_model
delete_composite_model(composite_id) ==
    /\ Idle
    /\ store' = [store EXCEPT !.composite_models = { row \in @ : row.id # composite_id }]
    /\ reply' = Answer("delete_composite_model", composite_id, "none")
    /\ UNCHANGED AdminFrame

\* ------------------------------------------------------ request dispatch
\* Bodies of POST /v1/chat/completions: model, messages (left out, [] or a
\* list with a user message), model_type and stream.
Messages == {"None", "[]", "[user]"}
Bodies ==
    [model : {Falsy} \cup ModelNames, messages : Messages,
     model_type : {"", "reasoner", "general", "composite"}, stream : BOOLEAN]

\* `not x` for the values a body holds
not(x) == x \in {Falsy, "None", "[]"}

\* ModelManager.validate_and_prepare_params: the exception it raises
any_body_accepted(body) == "none"
validate_and_prepare_params(body) ==
    IF not(body.model) THEN "ValueError"
    ELSE IF not(body.messages) THEN "ValueError"
    ELSE "none"

\* ModelManager.get_model_details: the table and the row the name resolves
\* to.  A row of models has model_type reasoner or general, so the second
\* component of the result tells the table.
Resolved(table, row) == [table |-> table, row |-> row]
Unresolved == [table |-> "none"]
composites_first(model_name, model_type) ==
    LET c == get_composite_model(model_name, Falsy, TRUE)
        m == get_model(model_name, Falsy, TRUE)
    IN IF c # PyNone THEN Resolved("composite_models", c)
       ELSE IF m # PyNone THEN Resolved("models", m)
       ELSE Unresolved
get_model_details(model_name, model_type) ==
    IF model_type \in {"reasoner", "general"}
    THEN LET m == get_model(model_name, Falsy, TRUE)
         IN IF m = PyNone THEN Unresolved ELSE Resolved("models", m)
    ELSE IF model_type = "composite"
    THEN LET c == get_composite_model(model_name, Falsy, TRUE)
         IN IF c = PyNone THEN Unresolved ELSE Resolved("composite_models", c)
    ELSE LET m == get_model(model_name, Falsy, TRUE)
         IN IF m = PyNone
            THEN LET c == get_composite_model(model_name, Falsy, TRUE)
                 IN IF c = PyNone THEN Unresolved ELSE Resolved("composite_models", c)
            ELSE Resolved("models", m)

\* A call with keyword arguments: a keyword the function does not have is a
\* TypeError.
TypeError == [type |-> "TypeError"]
Arg(kwargs, k) == IF k \in DOMAIN kwargs THEN kwargs[k] ELSE Falsy
get_model_kw(kwargs) ==
    IF DOMAIN kwargs \subseteq {"model_name", "models_id", "is_valid"}
    THEN get_model(Arg(kwargs, "model_name"), Arg(kwargs, "models_id"),
                   "is_valid" \in DOMAIN kwargs /\ kwargs.is_valid)
    ELSE TypeError

\* What create_instance is handed as `provider`: a ProviderConfig, None or
\* a provider id; it reads provider.is_proxy_open first.
ProviderConfig(row) ==
    IF row = PyNone THEN PyNone ELSE [type |-> "ProviderConfig", row |-> row]
Str(value) == [type |-> "str", value |-> value]
client_of(provider) ==
    IF provider.type = "ProviderConfig" THEN [type |-> "client"]
    ELSE AttributeError

\* `await x`: only a coroutine can be awaited.
await(x) == IF x.type = "coroutine" THEN x.result ELSE TypeError

\* How far a dispatch got: clients built, signal registered, upstream
\* handed the request (the stream or the awaited chat), and the exception
\* that left process_request.
Dispatched(exc, table, clients, registered, upstream) ==
    [exc |-> exc, table |-> table, clients |-> clients,
     registered |-> registered, upstream |-> upstream]

\* ModelManager.composite_model_response (a plain def), and the await that
\* process_request puts on what it returns.
composite_dispatch(details) ==
    LET reasoner_model == get_model_kw([model_id |-> details.reasoner_model_id,
                                        is_valid |-> TRUE])
        general_model == get_model_kw([model_id |-> details.general_model_id,
                                       is_valid |-> TRUE])
    IN IF reasoner_model = TypeError \/ general_model = TypeError
       THEN Dispatched("TypeError", "composite_models", 0, FALSE, FALSE)
       ELSE IF reasoner_model = PyNone \/ general_model = PyNone
       THEN Dispatched("ValueError", "composite_models", 0, FALSE, FALSE)
       ELSE IF client_of(Str(reasoner_model.provider_id)) = AttributeError
       THEN Dispatched("AttributeError", "composite_models", 0, FALSE, FALSE)
       ELSE IF client_of(Str(general_model.provider_id)) = AttributeError
       THEN Dispatched("AttributeError", "composite_models", 1, FALSE, FALSE)
       ELSE IF await([type |-> "StreamingResponse"]) = TypeError
       THEN Dispatched("TypeError", "composite_models", 2, TRUE, FALSE)
       ELSE Dispatched("none", "composite_models", 2, TRUE, TRUE)

\* ModelManager.default_response: get_provider is handed the provider id as
\* its first positional argument, the provider name.
default_dispatch(details) ==
    LET provider == ProviderConfig(get_provider(details.provider_id, Falsy))
    IN IF client_of(provider) = AttributeError
       THEN Dispatched("AttributeError", "models", 0, FALSE, FALSE)
       ELSE Dispatched("none", "models", 1, FALSE, TRUE)

\* POST /v1/chat/completions: main.chat_completions around
\* ModelManager.process_request.
process_request(body) ==
    LET invalid == validate_and_prepare_params(body)
        found == get_model_details(body.model, body.model_type)
        d == IF invalid # "none"
             THEN Dispatched(invalid, "none", 0, FALSE, FALSE)
             ELSE IF found = Unresolved
             THEN Dispatched("ValueError", "none", 0, FALSE, FALSE)
             ELSE IF found.table = "composite_models"
             THEN composite_dispatch(found.row)
             ELSE default_dispatch(found.row)
    IN /\ Idle
       /\ reply' = [op |-> "process_request", body |-> body,
                    found |-> IF invalid # "none" THEN Unresolved ELSE found,
                    exc |-> d.exc, table |-> d.table, clients |-> d.clients,
                    registered |-> d.registered, upstream |-> d.upstream,
                    http_status |-> IF d.exc = "none" THEN HTTP_OK
                                    ELSE chat_completions(d.exc, HTTP_INTERNAL_ERROR)]
       /\ cancel_events' = IF d.registered
                           THEN register_cancel_event(cancel_events, ChatId(clock), First)
                           ELSE cancel_events
       /\ UNCHANGED <<clock, other_params, pc, kind, chat_id, model, last_role,
                      messages, cancel_flag, reasoning_cancel_flag, target_cancel_flag,
                      response, lines, sent, blank_windows, created,
                      temp_content, delivered, outcome>>
       /\ UNCHANGED <<connector, config, call, extraction, store, framing, chain, pool>>

StreamVars == <<pc, lines, sent, blank_windows, created, temp_content, delivered, outcome,
                response, reasoning_cancel_flag, target_cancel_flag, messages>>

\* The wall clock advances.
Tick(d) ==
    /\ TicksSoFar < MaxTicks
    /\ clock' = clock + d
    /\ UNCHANGED <<other_params, cancel_events, kind, chat_id, model, last_role,
                   cancel_flag, StreamVars, Aside>>

\* ------------------------------------------------------------- dispatcher
\* ModelManager.composite_model_response, from the point where both upstream
\* clients and the CompositeModel exist: the chat id, the registration of
\* the cancel Event, the StreamingResponse around the (not yet started)
\* composite generator.
composite_model_response(r, role) ==
    /\ pc[r] = "New"
    /\ chat_id' = [chat_id EXCEPT ![r] = ChatId(clock)]
    /\ cancel_events' = register_cancel_event(cancel_events, ChatId(clock), r)
    /\ cancel_flag' = [cancel_flag EXCEPT ![r] = FALSE]
    /\ kind' = [kind EXCEPT ![r] = "composite"]
    /\ model' = [model EXCEPT ![r] = "composite"]
    /\ last_role' = [last_role EXCEPT ![r] = role]
    /\ messages' = [messages EXCEPT ![r] = [NoMessages EXCEPT !.dicts = RequestMessages(role)]]
    /\ pc' = [pc EXCEPT ![r] = "Idle"]
    /\ UNCHANGED <<clock, other_params, lines, sent, blank_windows, created,
                   temp_content, delivered, outcome, response,
                   reasoning_cancel_flag, target_cancel_flag, Aside>>

\* ModelManager.default_response with stream=True: the StreamingResponse
\* around original_stream_chat (origin_output) or stream_chat; neither is
\* handed a cancel_flag and nothing is registered.
default_response(r, m, is_origin_output) ==
    /\ pc[r] = "New"
    /\ chat_id' = [chat_id EXCEPT ![r] = ChatId(clock)]
    /\ kind' = [kind EXCEPT ![r] = IF is_origin_output THEN "origin" ELSE "direct"]
    /\ model' = [model EXCEPT ![r] = m]
    /\ pc' = [pc EXCEPT ![r] = "Idle"]
    /\ UNCHANGED <<clock, other_params, cancel_events, last_role, cancel_flag,
                   lines, sent, blank_windows, created, temp_content,
                   delivered, outcome, response, reasoning_cancel_flag,
                   target_cancel_flag, messages, Aside>>

\* ModelManager.cancel_request: its return value
never_registered(request_id) == FALSE
cancel_request_result(request_id) == request_id \in DOMAIN cancel_events

\* Status of the answer of POST /v1/cancel (main.cancel_request)
cancel_status(id) ==
    IF id = NoChatId THEN HTTP_BAD_REQUEST
    ELSE IF cancel_request_result(id) THEN HTTP_OK
    ELSE HTTP_NOT_FOUND

\* POST /v1/cancel with body {chat_id: id}: main.cancel_request around
\* ModelManager.cancel_request.  The registry keeps its keys.
cancel_request(id) ==
    /\ cancel_flag' = IF id # NoChatId /\ cancel_request_result(id)
                      THEN [cancel_flag EXCEPT ![cancel_events[id]] = set(@)]
                      ELSE cancel_flag
    /\ UNCHANGED <<clock, other_params, cancel_events, kind, chat_id, model,
                   last_role, StreamVars, Aside>>

\* ----------------------------------------------------------------- stream
\* `except Exception as e: ... raise` of CompositeModel.stream_chat, and a
\* direct client's exception leaving its generator: the stream ends with the
\* upstream's error.
start_over(s) == [s EXCEPT !.pc = "Idle"]
reraise(s) == [s EXCEPT !.pc = "Failed", !.outcome = "upstream_error"]

Frame == <<clock, other_params, cancel_events, kind, chat_id, model, last_role,
           cancel_flag, Aside>>

\* The consumer starts the generator: CompositeModel.stream_chat up to the
\* first read of the reasoning upstream (reasoning_cancel_flag is created,
\* the reasoning client takes `created` and posts its request), or the
\* direct client's stream up to its first read.
StreamStart(r) ==
    /\ pc[r] = "Idle"
    /\ LET p == IF kind[r] = "composite" THEN "Reasoning" ELSE "Direct" IN
       Put(r, [S(r) EXCEPT !.pc = p,
                           !.created = CreatedTime(clock),
                           !.reasoning_cancel_flag = FALSE,
                           !.response = [@ EXCEPT ![StageOf(p)] = "open"]])
    /\ UNCHANGED Frame

\* BaseClient._make_request yields one more window (the cancel test of the
\* read loop did not fire), the client splits it into lines, skips the
\* blank ones and yields the chunk of the first data line; without a data
\* line it goes on to the next read.  A window of the origin_output path is
\* passed on whole unless it is all whitespace.
ReadWindow(r, w) ==
    /\ pc[r] \in Awaiting
    /\ response[r][StageOf(pc[r])] = "open"
    /\ ~make_request_cancelled(S(r))
    /\ w \in Windows(StageOf(pc[r]), sent[r], MaxChunks) \cup BlankWindows
                \cup DoneWindows(sent[r], MaxChunks)
    /\ LET data == parse_json_lines(splitlines(w)) IN
       Put(r, NextChunk(r, [S(r) EXCEPT
              !.sent = @ + Events(splitlines(w)),
              !.blank_windows = IF data = << >> THEN 1 - @ ELSE @,
              !.lines = IF kind[r] # "origin" THEN data
                        ELSE IF IsWhitespace(w) THEN << >>
                        ELSE <<[stage |-> "origin", seq |-> sent[r] + 1, raw |-> w]>>]))
    /\ UNCHANGED Frame

\* The consumer asks for the next chunk: the generator resumes after its
\* `yield chunk`.
StreamResume(r) ==
    /\ pc[r] \in {"ReasoningYield", "TargetYield", "DirectYield"}
    /\ Put(r, CASE pc[r] = "ReasoningYield" -> ReasoningBody(r, S(r))
                [] pc[r] = "TargetYield" -> NextChunk(r, [S(r) EXCEPT !.pc = "Target"])
                [] pc[r] = "DirectYield" -> NextChunk(r, [S(r) EXCEPT !.pc = "Direct"]))
    /\ UNCHANGED Frame

\* The read loop of _make_request ends (the body is exhausted, or the loop's
\* cancel test fired and broke out of it): the response is released and the
\* client's generator is exhausted.  In the reasoning stage the composite
\* goes on to the hand-off.
StreamEnd(r) ==
    /\ pc[r] \in Awaiting
    /\ response[r][StageOf(pc[r])] = "open"
    /\ LET s == [S(r) EXCEPT !.response = release(@, StageOf(pc[r]))] IN
       Put(r, IF pc[r] = "Reasoning" THEN LoopExit(r, s)
              ELSE [s EXCEPT !.pc = "Done", !.outcome = "completed"])
    /\ UNCHANGED Frame

\* The post or a read fails (timeout, connection error, non-2xx status):
\* handle_all_client_errors raises, the `async with` blocks release the
\* response, and the composite re-raises.
UpstreamError(r) ==
    /\ pc[r] \in Awaiting
    /\ response[r][StageOf(pc[r])] = "open"
    /\ Put(r, reraise([S(r) EXCEPT !.response = release(@, StageOf(pc[r]))]))
    /\ UNCHANGED Frame

\* A client generator the composite stopped iterating (break or return while
\* it was suspended at a yield) is closed by the event loop's async-generator
\* finalizer: GeneratorExit unwinds the `async with` blocks of _make_request,
\* which release the response.
GeneratorClose(r, st) ==
    /\ response[r][st] = "open"
    /\ StageOf(pc[r]) # st
    /\ Put(r, [S(r) EXCEPT !.response = release(@, st)])
    /\ UNCHANGED Frame

\* ---------------------------------------------------------- specification
\* Chat ids a cancel request may name: those dispatched, one never
\* dispatched, and a body without chat_id.
CancelIds == {chat_id[r] : r \in Req} \cup {UnknownChatId, NoChatId}

\* The steps of the stream of request r, whose upstreams send at most n
\* deltas per stage, and the windows without a data line that `blanks`
\* holds.
Stream(r, n, blanks) ==
    \/ StreamStart(r)
    \/ \E w \in Windows(StageOf(pc[r]), sent[r], n) \cup blanks : ReadWindow(r, w)
    \/ StreamResume(r)
    \/ StreamEnd(r)
    \/ UpstreamError(r)
    \/ \E st \in Stages : GeneratorClose(r, st)

\* One request, its upstreams in full detail.
Next ==
    \/ \E d \in {1, MsPerSecond} : Tick(d)
    \/ \E role \in Roles : composite_model_response(First, role)
    \/ \E m \in DirectModels, o \in BOOLEAN : default_response(First, m, o)
    \/ \E id \in CancelIds : cancel_request(id)
    \/ Stream(First, MaxChunks, NoDataWindows)

Spec == Init /\ [][Next]_vars

\* Progress of one request: the event loop keeps scheduling the stream, the
\* consumer keeps asking for the next chunk, and an open upstream eventually
\* sends another window, ends or fails.  The clock, which no step of a
\* stream waits for, stands still.
FairNext ==
    \/ \E role \in Roles : composite_model_response(First, role)
    \/ \E m \in DirectModels, o \in BOOLEAN : default_response(First, m, o)
    \/ \E id \in CancelIds : cancel_request(id)
    \/ Stream(First, MaxChunks, NoDataWindows)

FairSpec == Init /\ [][FairNext]_vars /\ WF_vars(Stream(First, MaxChunks, NoDataWindows))

\* Two requests in any interleaving, with short upstream streams of data
\* lines only.
PairNext ==
    \/ \E d \in {1, MsPerSecond} : Tick(d)
    \/ \E r \in Req, role \in Roles : composite_model_response(r, role)
    \/ \E r \in Req, m \in DirectModels, o \in BOOLEAN : default_response(r, m, o)
    \/ \E id \in CancelIds : cancel_request(id)
    \/ \E r \in Req : Stream(r, PairChunks, {})

PairSpec == Init /\ [][PairNext]_vars

\* Direct upstream calls, one after the other, under any proxy setting.
CallInit ==
    /\ GatewayInit
    /\ connector = "open"
    /\ config \in ProxySettings
    /\ call = NoCall
    /\ extraction = NoExtraction
    /\ store = EmptyStore
    /\ reply = NoReply
    /\ framing = NoFraming
    /\ chain = NoChain
    /\ pool = NoPool

CallNext ==
    \/ \E is_proxy_open \in BOOLEAN, stream \in BOOLEAN : create_instance(is_proxy_open, stream)
    \/ Post
    \/ \E status \in UpstreamStatuses : Respond(status)
    \/ TransportError
    \/ StreamCallEnd

CallSpec == CallInit /\ [][CallNext]_vars

\* The administrator's calls on the configuration store, in any order.
StoreNext ==
    \/ \E c \in ProviderConfigs : save_provider(c)
    \/ \E c \in ModelConfigs : save_model(c)
    \/ \E c \in CompositeModelConfigs : save_composite_model(c)
    \/ \E id \in Uuids : delete_provider(id)
    \/ \E id \in Uuids : delete_model(id)
    \/ \E id \in Uuids : delete_composite_model(id)
    \/ Answered

\* No chat request has been dispatched yet.
StoreInit ==
    /\ Init
    /\ other_params = [reasoning_model |-> "r1", target_model |-> "g1"]

StoreSpec == StoreInit /\ [][StoreNext]_vars

\* Chat requests against whatever the administrator has configured.
DispatchNext ==
    \/ StoreNext
    \/ \E body \in Bodies : process_request(body)

DispatchSpec == StoreInit /\ [][DispatchNext]_vars

\* One embedded-reasoning stream, for every text and every way to cut it.
ThinkInit ==
    /\ GatewayInit
    /\ connector = "open"
    /\ config = DefaultProxySetting
    /\ call = NoCall
    /\ \E text \in Texts : \E deltas \in Splittings(text, MaxDeltas) :
          extraction = [text |-> text, deltas |-> deltas, emitted |-> << >>,
                        exc |-> "none"]
    /\ store = EmptyStore
    /\ reply = NoReply
    /\ framing = NoFraming
    /\ chain = NoChain
    /\ pool = NoPool

ThinkNext == ThinkDelta

ThinkSpec == ThinkInit /\ [][ThinkNext]_vars

\* One stream of a client over one body, for every body and every way to
\* cut it into read windows.  A body for ClaudeClient has no `[DONE]`.
FrameInit ==
    /\ GatewayInit
    /\ chain = NoChain
    /\ pool = NoPool
    /\ other_params = [reasoning_model |-> "r1", target_model |-> "g1"]
    /\ connector = "open"
    /\ config = DefaultProxySetting
    /\ call = NoCall
    /\ extraction = NoExtraction
    /\ store = EmptyStore
    /\ reply = NoReply
    /\ \E client \in {"openai", "claude"} : \E events \in EventSeqs :
       \E windows \in Splittings(BodyText(events, 1), MaxReads) :
          /\ client = "claude" => \A k \in 1..Len(events) : events[k] # "done"
          /\ framing = [pc |-> "reading", client |-> client, events |-> events,
                        windows |-> windows, emitted |-> << >>, done |-> FALSE]

FrameNext == FrameRead \/ FrameEnd

FrameSpec == FrameInit /\ [][FrameNext]_vars

\* One stream of an origin-reasoning model of the reasoner family, for every
\* sequence of deltas; extraction.text holds the deltas read so far.
OriginInit ==
    /\ GatewayInit
    /\ other_params = [reasoning_model |-> "r1", target_model |-> "g1"]
    /\ connector = "open"
    /\ config = DefaultProxySetting
    /\ call = NoCall
    /\ \E n \in 1..MaxDeltas : \E deltas \in [1..n -> OriginDeltas] :
          extraction = [text |-> << >>, deltas |-> deltas, emitted |-> << >>,
                        exc |-> "none"]
    /\ store = EmptyStore
    /\ reply = NoReply
    /\ framing = NoFraming
    /\ chain = NoChain
    /\ pool = NoPool

OriginNext == OriginDelta

OriginSpec == OriginInit /\ [][OriginNext]_vars

\* One run of the read loop of _make_request on a 2xx response, for every
\* sequence of windows, with a cancel flag that may be set at any moment.
ReadInit ==
    /\ GatewayInit
    /\ chain = NoChain
    /\ pool = NoPool
    /\ other_params = [reasoning_model |-> "r1", target_model |-> "g1"]
    /\ connector = "open"
    /\ config = DefaultProxySetting
    /\ call = NoCall
    /\ extraction = NoExtraction
    /\ store = EmptyStore
    /\ reply = NoReply
    /\ \E windows \in ReadWindows :
          framing = [pc |-> "reading", body |-> windows, windows |-> windows,
                     emitted |-> << >>, cancel_flag |-> FALSE,
                     response |-> "open", exc |-> "none"]

ReadNext ==
    \/ SetCancelFlag
    \/ ReadLoop
    \/ ReadResume
    \/ ReadExhausted
    \/ ReadError

ReadSpec == ReadInit /\ [][ReadNext]_vars

\* The registry alone: requests are dispatched and cancel requests arrive,
\* in any order; no stream is started.
RegistryNext ==
    \/ \E d \in {1, MsPerSecond} : Tick(d)
    \/ \E r \in Req, role \in Roles : composite_model_response(r, role)
    \/ \E r \in Req, m \in DirectModels, o \in BOOLEAN : default_response(r, m, o)
    \/ \E id \in CancelIds : cancel_request(id)

RegistrySpec == Init /\ [][RegistryNext]_vars

\* One streaming run of ModelChain.process from its first wait on the queue:
\* the task created by asyncio.create_task starts only when the consumer first
\* awaits, so the first loop test has passed. From there the processing task
\* and the consumer loop interleave at their awaits, for every number of items
\* the processor produces.
ChainInit ==
    /\ GatewayInit
    /\ other_params = [reasoning_model |-> "r1", target_model |-> "g1"]
    /\ connector = "open"
    /\ config = DefaultProxySetting
    /\ call = NoCall
    /\ extraction = NoExtraction
    /\ store = EmptyStore
    /\ reply = NoReply
    /\ framing = NoFraming
    /\ pool = NoPool
    /\ \E n \in 0..MaxItems :
          chain = [pc |-> "waiting", task |-> "running", todo |-> n, put |-> 0,
                   queue |-> << >>, yielded |-> << >>, completed |-> FALSE,
                   error |-> FALSE]

ChainNext ==
    \/ ChainGet
    \/ ChainTimeout
    \/ ChainResume
    \/ ChainPut
    \/ ChainComplete
    \/ ChainFail

ChainSpec == ChainInit /\ [][ChainNext]_vars

\* The pool after SQLiteConnectionPool.__init__, with one thread per context:
\* contexts enter, retry, give up and exit, and close_all is called, in any
\* interleaving of the steps the lock makes atomic.
PoolInit ==
    /\ GatewayInit
    /\ other_params = [reasoning_model |-> "r1", target_model |-> "g1"]
    /\ connector = "open"
    /\ config = DefaultProxySetting
    /\ call = NoCall
    /\ extraction = NoExtraction
    /\ store = EmptyStore
    /\ reply = NoReply
    /\ framing = NoFraming
    /\ chain = NoChain
    /\ pool = [pc |-> "open",
               pool |-> [i \in Slots |-> PyNone],
               available |-> [k \in 1..MaxConnections |-> k - 1],
               in_use |-> [i \in Slots |-> FALSE],
               created |-> 0,
               ctx |-> [t \in Threads |-> NewContext]]

PoolNext ==
    \/ \E t \in Threads : enter(t)
    \/ \E t \in Threads : get_connection_round(t)
    \/ \E t \in Threads : get_connection_timeout(t)
    \/ \E t \in Threads : exit(t)
    \/ close_all

PoolSpec == PoolInit /\ [][PoolNext]_vars

\* ------------------------------------------------------------ properties
IsComposite(r) == kind[r] = "composite"

\* C1: in a composite stream every reasoning-stage chunk is delivered before
\* every target-stage chunk (the stages are never interleaved), and within a
\* stage the chunks are delivered in the order the upstream sent them.
C1_StagesInOrder ==
    \A r \in Req : IsComposite(r) =>
        \A i, j \in 1..Len(delivered[r]) : i < j =>
            /\ ~(delivered[r][i].stage = "target" /\ delivered[r][j].stage = "reasoning")
            /\ delivered[r][i].stage = delivered[r][j].stage =>
                   delivered[r][i].seq < delivered[r][j].seq

\* A composite stream that ran to its end and delivered chunks of both
\* stages, two of them out of one window.
C1_Witness ==
    \E r \in Req :
        /\ IsComposite(r) /\ outcome[r] = "completed"
        /\ Len(delivered[r]) = 2 * MaxChunks
        /\ delivered[r][1].stage = "reasoning"
        /\ delivered[r][Len(delivered[r])].stage = "target"

\* C2: a cancel request that sets the caller's signal while the composite is
\* in the target stage is answered 200, and from then on no chunk is
\* delivered: the stream only resumes, ends or stays.
C2_CancelInTargetStage ==
    [][\A r \in Req : IsComposite(r) /\ pc[r] \in TargetStates =>
          /\ (~cancel_flag[r] /\ cancel_flag'[r]) =>
                 /\ cancel_request(chat_id[r])
                 /\ cancel_request_result(chat_id[r])
                 /\ cancel_status(chat_id[r]) = HTTP_OK
          /\ cancel_flag[r] =>
                 /\ delivered'[r] = delivered[r]
                 /\ pc'[r] \in {pc[r], "Target", "Done", "Failed"}]_vars

\* The composite dropped a target chunk it received after the signal was
\* set, having delivered target chunks before.
C2_Witness ==
    \E r \in Req :
        /\ outcome[r] = "cancelled_target"
        /\ delivered[r] # << >>
        /\ delivered[r][Len(delivered[r])].stage = "target"
        /\ sent[r] > delivered[r][Len(delivered[r])].seq

\* C3: after a composite stream has ended, its chat id is no key of the
\* cancellation registry.
C3_NoLeakedRegistration ==
    \A r \in Req : IsComposite(r) /\ Ended(r) => chat_id[r] \notin DOMAIN cancel_events

\* C4: a cancel request is answered 200 exactly when a stream with that
\* chat id is in flight; for an ended stream it returns false (404).
C4_CancelAfterEnd ==
    [][\A id \in CancelIds \ {NoChatId} : cancel_request(id) =>
          /\ cancel_request_result(id) <=> \E r \in Req : chat_id[r] = id /\ InFlight(r)
          /\ cancel_status(id) = IF \E r \in Req : chat_id[r] = id /\ InFlight(r)
                                 THEN HTTP_OK ELSE HTTP_NOT_FOUND]_vars

\* C5: dispatched requests have pairwise different chat ids, so the
\* registry entry of an in-flight composite stream is its own signal.
C5_UniqueChatIds ==
    /\ \A r1, r2 \in Req :
          r1 # r2 /\ pc[r1] # "New" /\ pc[r2] # "New" => chat_id[r1] # chat_id[r2]
    /\ \A r \in Req : IsComposite(r) /\ InFlight(r) =>
          /\ chat_id[r] \in DOMAIN cancel_events
          /\ cancel_events[chat_id[r]] = r

\* C6: every stream in flight, direct or composite, has a signal registered
\* under its chat id, and that signal is the one the stream tests.
C6_EveryStreamRegistered ==
    \A r \in Req : InFlight(r) =>
        /\ cancel_request_result(chat_id[r])
        /\ cancel_events[chat_id[r]] = r

\* C7: when the composite ends on the caller's signal inside a stage loop,
\* that stage's signal is set; and a stage signal becomes set only in a step
\* of the composite that leaves the stage's loop (on the caller's signal,
\* or, for the reasoning stage, at the boundary chunk).
C7_CascadedCancellation ==
    [][\A r \in Req :
          /\ outcome'[r] = "cancelled_reasoning" => reasoning_cancel_flag'[r]
          /\ outcome'[r] = "cancelled_target" => target_cancel_flag'[r]
          /\ (~reasoning_cancel_flag[r] /\ reasoning_cancel_flag'[r]) =>
                 /\ pc[r] \in ReasoningStates /\ pc'[r] \notin ReasoningStates
                 /\ \/ outcome'[r] = "cancelled_reasoning"
                    \/ /\ pc[r] = "ReasoningYield"
                       /\ delivered[r][Len(delivered[r])].c
          /\ (~target_cancel_flag[r] /\ target_cancel_flag'[r]) =>
                 /\ pc[r] \in TargetStates
                 /\ outcome'[r] = "cancelled_target"]_vars

\* The composite ended on the caller's signal in the reasoning stage while
\* the reasoning upstream's response was still open.
C7_Witness ==
    \E r \in Req :
        /\ outcome[r] = "cancelled_reasoning"
        /\ reasoning_cancel_flag[r]
        /\ response[r]["reasoning"] = "open"

C9_CancelNeverAnError ==
    [][\A r \in Req : IsComposite(r) /\ cancel_flag[r] /\ InFlight(r) =>
          /\ outcome'[r] \notin {"no_reasoning", "no_user"}
          /\ ~(response[r]["target"] = "none" /\ response'[r]["target"] = "open")]_vars

\* C10: all chunks delivered on one stream carry the same id, created and
\* model.
C10_SameIdCreatedModel ==
    \A r \in Req : kind[r] \in {"composite", "direct"} =>
        \A i, j \in 1..Len(delivered[r]) :
            /\ delivered[r][i].id = delivered[r][j].id
            /\ delivered[r][i].created = delivered[r][j].created
            /\ delivered[r][i].model = delivered[r][j].model

\* The reasoning loop of request r is left by its break or by the end of
\* the reasoning upstream (not by the caller's signal, not by an error of
\* the upstream).
ReasoningStageEnds(r) ==
    /\ IsComposite(r)
    /\ pc[r] \in ReasoningStates
    /\ pc'[r] \notin ReasoningStates
    /\ outcome'[r] \notin {"cancelled_reasoning", "upstream_error"}

\* C11: when the reasoning stage ends, by the end of the upstream or at the
\* boundary chunk, with no reasoning accumulated, the composite fails with
\* the 'no valid reasoning content' error, and the target upstream is not
\* invoked then or later.
C11_EmptyReasoningFails ==
    [][\A r \in Req :
          /\ ReasoningStageEnds(r) /\ temp_content'[r] = << >> =>
                 /\ pc'[r] = "Failed"
                 /\ outcome'[r] = "no_reasoning"
                 /\ response'[r]["target"] = "none"
          /\ outcome[r] = "no_reasoning" =>
                 /\ outcome'[r] = "no_reasoning"
                 /\ response'[r]["target"] = "none"]_vars

\* The reasoning upstream went straight to its answer: the boundary chunk
\* was delivered, nothing was accumulated, and the composite failed.
C11_Witness ==
    \E r \in Req :
        /\ outcome[r] = "no_reasoning"
        /\ delivered[r] # << >>
        /\ delivered[r][Len(delivered[r])].c
        /\ response[r]["target"] = "none"

\* C12 (as stated): a composite whose last message is not a user message
\* ends, unless cancelled or failed by its upstream, with the 'no valid
\* user message' error.
C12_LastNotUserFails ==
    \A r \in Req :
        IsComposite(r) /\ Ended(r) /\ last_role[r] # "user"
          /\ outcome[r] \notin {"cancelled_reasoning", "upstream_error"}
        => outcome[r] = "no_user"

\* C12 (amended): when the reasoning stage of a composite whose last message
\* is not a user message ends with reasoning accumulated, the composite
\* fails with the 'no valid user message' error; and whatever way such a
\* composite takes, its target upstream is never invoked.
C12_NoTargetWithoutUser ==
    [][\A r \in Req : IsComposite(r) /\ last_role[r] # "user" =>
          /\ ReasoningStageEnds(r) /\ temp_content'[r] # << >> =>
                 /\ pc'[r] = "Failed"
                 /\ outcome'[r] = "no_user"
          /\ response[r]["target"] = "none"
          /\ response'[r]["target"] = "none"]_vars

\* A composite with an assistant message last collected reasoning and then
\* failed at the rewrite.
C12_Witness ==
    \E r \in Req :
        /\ outcome[r] = "no_user"
        /\ last_role[r] = "assistant"
        /\ temp_content[r] # << >>
        /\ response[r]["target"] = "none"

\* C13: in a composite stream, once a chunk with answer text has been
\* delivered, no chunk of the reasoning upstream that carries
\* reasoning_content is delivered any more.
C13_NoReasoningAfterContent ==
    \A r \in Req : IsComposite(r) =>
        \A i, j \in 1..Len(delivered[r]) :
            i < j /\ delivered[r][i].c =>
                ~(delivered[r][j].stage = "reasoning" /\ delivered[r][j].rc)

\* Reasoning was delivered, then the boundary chunk of the reasoning
\* upstream, then the target's answer.
C13_Witness ==
    \E r \in Req : \E i, j, k \in 1..Len(delivered[r]) :
        /\ i < j /\ j < k
        /\ delivered[r][i].stage = "reasoning" /\ delivered[r][i].rc
        /\ delivered[r][j].stage = "reasoning" /\ delivered[r][j].c
        /\ delivered[r][k].stage = "target"

\* C14: when the upstream answered a direct call with a non-2xx status, the
\* failure reaches the edge as a ClientAPIError and the gateway answers with
\* that same status.
C14_UpstreamStatusPropagated ==
    call.pc = "answered" /\ call.upstream_status \in UpstreamStatuses
      /\ ~ok(call.upstream_status)
    => /\ call.exc = "ClientAPIError"
       /\ call.http_status = call.upstream_status

\* C15: a normalized stream (direct or composite) that completed normally
\* delivered exactly one `data: [DONE]` event, as its last event; a stream
\* that ended on cancellation delivered none.
C15_DoneTerminator ==
    \A r \in Req : kind[r] \in {"composite", "direct"} =>
        LET dones == { i \in 1..Len(delivered[r]) : delivered[r][i] = DONE } IN
        /\ outcome[r] = "completed" => dones = {Len(delivered[r])} /\ delivered[r] # << >>
        /\ outcome[r] \in {"cancelled_reasoning", "cancelled_handoff", "cancelled_target"}
               => dones = {}

\* ------------------------------------------ embedded-reasoning properties
\* What a consumer of the stream reads: the reasoning_content fields and the
\* content fields of the yielded chunks, each concatenated in order.
RECURSIVE ReasoningOf(_)
ReasoningOf(chunks) ==
    IF chunks = << >> THEN << >>
    ELSE Head(chunks).reasoning_content \o ReasoningOf(Tail(chunks))
RECURSIVE ContentOf(_)
ContentOf(chunks) ==
    IF chunks = << >> THEN << >>
    ELSE Head(chunks).content \o ContentOf(Tail(chunks))

\* The text with every `<think>` and `</think>` removed.
RECURSIVE StripMarkers(_)
StripMarkers(text) ==
    IF text = << >> THEN << >>
    ELSE IF Len(text) >= Len(OpenMark) /\ SubSeq(text, 1, Len(OpenMark)) = OpenMark
    THEN StripMarkers(SubSeq(text, Len(OpenMark) + 1, Len(text)))
    ELSE IF Len(text) >= Len(CloseMark) /\ SubSeq(text, 1, Len(CloseMark)) = CloseMark
    THEN StripMarkers(SubSeq(text, Len(CloseMark) + 1, Len(text)))
    ELSE <<Head(text)>> \o StripMarkers(Tail(text))

\* Marker-free pieces of text.
Plain == {<< >>, <<"a">>, <<"b">>}

\* The stream is over: every delta was read, or the generator raised.
StreamEnded ==
    /\ extraction.text # << >>
    /\ extraction.deltas = << >> \/ extraction.exc # "none"

\* C16: the extraction state persists across the deltas of one stream: for
\* an upstream text `<think>` x `</think>` y, however it is cut into deltas,
\* the stream yields x only as reasoning_content and y only as content, and
\* never yields a marker.
C16_ExtractionStatePersists ==
    \A x \in Plain, y \in Plain :
        (StreamEnded /\ extraction.text = OpenMark \o x \o CloseMark \o y)
            => /\ ReasoningOf(extraction.emitted) = x
               /\ ContentOf(extraction.emitted) = y

\* C17: extraction loses and adds nothing: at the end of every stream, all
\* yielded reasoning_content followed by all yielded content is the upstream
\* text with the markers removed.
C17_ExtractionLosesNothing ==
    StreamEnded =>
        ReasoningOf(extraction.emitted) \o ContentOf(extraction.emitted)
            = StripMarkers(extraction.text)

C19_PoolNeverClosed == connector = "open"

\* C20: a client built for a provider whose proxy flag is false holds no
\* proxy and posts with no proxy url, whatever the proxy_address setting is;
\* a request that went out with a proxy url belongs to a provider whose flag
\* is true.
C20_ProxyOnlyWhenEnabled ==
    /\ (call.pc # "none" /\ ~call.is_proxy_open) =>
            /\ call.proxy = PyNone
            /\ call.proxy_url.type \in {"unset", "NoneType"}
    /\ call.proxy_url.type = "str" => call.is_proxy_open

\* A provider with the flag off, a non-empty proxy_address setting, and a
\* request that was posted without a proxy and answered by the upstream.
C20_Witness ==
    /\ call.pc = "answered"
    /\ ~call.is_proxy_open
    /\ config.setting_value # ""
    /\ call.upstream_status = HTTP_OK
    /\ call.proxy_url = PyNone

\* ------------------------------------------------- dispatch properties
\* The valid rows of a table that carry a name.
ValidNamed(rows, name) == { row \in rows : row.model_name = name /\ row.is_valid }

\* A chat request that passed validation has been dispatched.
Resolving ==
    /\ reply.op = "process_request"
    /\ ~not(reply.body.model)
    /\ ~not(reply.body.messages)

\* C21: model-name resolution.  With model_type reasoner or general the name
\* resolves to the valid model of that name and to nothing else; with
\* model_type composite to the valid composite of that name and to nothing
\* else; with model_type "" to the valid model if there is one, else to the
\* valid composite, and the request fails with ValueError when there is
\* neither.  Rows with valid=false never count.
C21_NameResolution ==
    Resolving =>
        LET name == reply.body.model
            type == reply.body.model_type
            models == ValidNamed(store.models, name)
            composites == ValidNamed(store.composite_models, name)
            Model == reply.found.table = "models" /\ reply.found.row \in models
            Composite == /\ reply.found.table = "composite_models"
                         /\ reply.found.row \in composites
            Neither == reply.found = Unresolved /\ reply.exc = "ValueError"
        IN CASE type \in {"reasoner", "general"} ->
                    IF models # {} THEN Model ELSE Neither
             [] type = "composite" ->
                    IF composites # {} THEN Composite ELSE Neither
             [] OTHER ->
                    IF models # {} THEN Model
                    ELSE IF composites # {} THEN Composite
                    ELSE Neither

\* A request without model_type whose name is carried by a model that is
\* not valid and by a valid composite: it resolved to the composite.
C21_Witness ==
    /\ Resolving
    /\ reply.body.model_type = ""
    /\ \E row \in store.models : row.model_name = reply.body.model /\ ~row.is_valid
    /\ reply.found.table = "composite_models"

\* A body without model, without messages or with an empty list, or whose
\* name no valid record carries (among the records its model_type asks for).
Unmatched(body, st) ==
    LET models == ValidNamed(st.models, body.model)
        composites == ValidNamed(st.composite_models, body.model)
    IN CASE body.model_type \in {"reasoner", "general"} -> models = {}
         [] body.model_type = "composite" -> composites = {}
         [] OTHER -> models = {} /\ composites = {}
InvalidRequest(body, st) ==
    \/ body.model = Falsy
    \/ body.messages \in {"None", "[]"}
    \/ Unmatched(body, st)

\* C22: a request without model, without messages, with an empty messages
\* list or naming no valid record fails with ValueError and is answered 400;
\* no client is built, no upstream is handed the request, no cancellation
\* signal is registered and the registry is what it was.
C22_InvalidRequestRejected ==
    /\ [](reply.op = "process_request" /\ InvalidRequest(reply.body, store)
            => /\ reply.exc = "ValueError"
               /\ reply.http_status = HTTP_BAD_REQUEST
               /\ reply.clients = 0
               /\ ~reply.upstream
               /\ ~reply.registered)
    /\ [][(reply = NoReply /\ reply'.op = "process_request"
             /\ InvalidRequest(reply'.body, store))
            => cancel_events' = cancel_events]_vars

\* A request for a valid model with an empty messages list, and a request
\* with messages for a name no record carries, each answered 400.
C22_Witness ==
    /\ reply.op = "process_request"
    /\ reply.http_status = HTTP_BAD_REQUEST
    /\ \/ /\ reply.body.messages = "[]"
          /\ ValidNamed(store.models, reply.body.model) # {}
       \/ /\ reply.body.messages = "[user]"
          /\ reply.body.model # Falsy
          /\ store.models # {}
          /\ Unmatched(reply.body, store)

\* C23: composite dispatch.  When both models a valid composite refers to
\* are valid, two clients are built, a cancellation signal is registered
\* and a stream is returned, whatever the stream flag; when one of them is
\* absent or not valid the request fails, no upstream is handed the request
\* and no signal is registered.
C23_CompositeDispatch ==
    (reply.op = "process_request" /\ reply.found.table = "composite_models") =>
        LET c == reply.found.row
            Valid(id) == \E row \in store.models : row.id = id /\ row.is_valid
        IN IF Valid(c.reasoner_model_id) /\ Valid(c.general_model_id)
           THEN /\ reply.exc = "none"
                /\ reply.clients = 2
                /\ reply.registered
                /\ reply.upstream
           ELSE /\ reply.exc # "none"
                /\ ~reply.upstream
                /\ ~reply.registered

\* ------------------------------------------------- pass-through and framing
\* C24: the origin_output stream is verbatim: every step in which the
\* stream reads a window of the upstream body (one more event sent, or one
\* more window without a data line) hands exactly one more raw chunk to the
\* caller, so that no window is dropped, whatever the cut - windows that
\* hold only the line break included.
C24_VerbatimPassThrough ==
    [][\A r \in Req :
         (kind[r] = "origin"
            /\ (sent'[r] # sent[r] \/ blank_windows'[r] # blank_windows[r]))
         => Len(delivered'[r]) = Len(delivered[r]) + 1]_vars

\* --------------------------------------------------- store properties
\* C25: model names and composite names form one namespace: whatever saves
\* were made, no model carries the name of a composite.
C25_OneNamespace ==
    \A m \in store.models, c \in store.composite_models : m.model_name # c.model_name

\* Every model's provider and every composite's two models exist.
ReferencesExist ==
    /\ \A m \in store.models : provider_exists(m.provider_id)
    /\ \A c \in store.composite_models :
          model_exists(c.reasoner_model_id) /\ model_exists(c.general_model_id)

\* C26: referential integrity on delete.  delete_provider on a provider
\* with a dependent model, and delete_model on a model a composite refers
\* to, raise and leave the store as it was; and every model's provider and
\* every composite's two models exist at all times.
C26_DeleteKeepsReferences ==
    /\ []ReferencesExist
    /\ [][/\ (reply = NoReply /\ reply'.op = "delete_provider"
                /\ \E m \in store.models : m.provider_id = reply'.arg)
             => reply'.exc = "DBManagerError" /\ store' = store
          /\ (reply = NoReply /\ reply'.op = "delete_model"
                /\ \E c \in store.composite_models :
                      reply'.arg \in {c.reasoner_model_id, c.general_model_id})
             => reply'.exc = "DBManagerError" /\ store' = store]_vars

\* A refused delete: the provider of a model, or a model a composite refers
\* to, is still there after the delete that named it.
C26_Witness ==
    /\ reply.op \in {"delete_provider", "delete_model"}
    /\ reply.exc = "DBManagerError"
    /\ store.composite_models # {}
    /\ \/ reply.op = "delete_provider" /\ provider_exists(reply.arg)
       \/ reply.op = "delete_model" /\ model_exists(reply.arg)

\* ------------------------------------------------------ upstream calls
\* C27: no retry.  Within one request each upstream is called at most once:
\* a call that was made is never made again, and a call that has ended never
\* reopens.  Once an upstream has failed the stream has ended with that
\* error: it stays failed, the caller is handed nothing more and no upstream
\* that was not called yet is called.
C27_NoRetry ==
    /\ [](outcome[First] = "upstream_error" => pc[First] = "Failed")
    /\ [][\A st \in Stages :
            /\ response[First][st] # "none" => response'[First][st] # "none"
            /\ response[First][st] = "released" => response'[First][st] = "released"
            /\ outcome[First] = "upstream_error" =>
                  /\ outcome'[First] = "upstream_error"
                  /\ delivered'[First] = delivered[First]
                  /\ response[First][st] = "none" => response'[First][st] = "none"]_vars

\* The target upstream of a composite failed after the reasoning upstream
\* had been read to its end.
C27_Witness ==
    /\ kind[First] = "composite"
    /\ outcome[First] = "upstream_error"
    /\ response[First]["reasoning"] = "released"
    /\ response[First]["target"] = "released"
    /\ delivered[First] # << >>

\* ------------------------------------------------------ stage boundary
\* C28: boundary detection.  In the reasoning stage of a composite stream
\* the chunk with non-empty delta.content is the boundary: once the loop
\* body has run on it, reasoning_cancel_flag is set and the reasoning
\* upstream is read no more, so it is the last chunk of the reasoning
\* upstream the caller gets and there is at most one.  A chunk with empty or
\* absent content is no boundary: without a user cancel the flag is set only
\* when a chunk with content was delivered, and after a chunk without
\* content the loop goes on reading.
Boundaries(r) ==
    { i \in 1..Len(delivered[r]) :
        delivered[r][i].stage = "reasoning" /\ delivered[r][i].c }

C28_BoundaryDetection ==
    /\ [](\A r \in Req : IsComposite(r) =>
            /\ \A i \in Boundaries(r) : \A j \in 1..Len(delivered[r]) :
                  delivered[r][j].stage = "reasoning" => j <= i
            /\ Boundaries(r) # {} /\ pc[r] # "ReasoningYield" =>
                  /\ reasoning_cancel_flag[r]
                  /\ StageOf(pc[r]) # "reasoning"
            /\ reasoning_cancel_flag[r] =>
                  Boundaries(r) # {} \/ outcome[r] = "cancelled_reasoning")
    /\ [][\A r \in Req :
            /\ IsComposite(r) /\ pc[r] = "ReasoningYield"
            /\ ~delivered[r][Len(delivered[r])].c
            /\ pc'[r] # "ReasoningYield" \/ delivered'[r] # delivered[r]
            => \/ /\ StageOf(pc'[r]) = "reasoning"
                  /\ reasoning_cancel_flag'[r] = reasoning_cancel_flag[r]
               \/ cancel_flag[r] /\ outcome'[r] = "cancelled_reasoning"]_vars

\* A chunk with reasoning only was delivered and the loop went on; the
\* boundary chunk came later, and the target stage is running.
C28_Witness ==
    \E r \in Req : \E i \in Boundaries(r) :
        /\ IsComposite(r)
        /\ i > 1
        /\ ~delivered[r][1].c
        /\ reasoning_cancel_flag[r]
        /\ StageOf(pc[r]) = "target"

\* -------------------------------------------------------- line framing
\* C29: once OpenAICompatibleClient.stream_chat has read a line whose
\* payload is exactly `[DONE]`, it emits no chunk for a data line that
\* follows that line in the body, in the same window or in a later one:
\* every chunk emitted belongs to an event before the body's first
\* `data: [DONE]`.
FirstDone(events) ==
    CHOOSE i \in 1..Len(events) :
        events[i] = "done" /\ \A j \in 1..(i - 1) : events[j] # "done"

C29_DoneEndsStream ==
    framing.pc # "none" /\ framing.client = "openai" /\ framing.done =>
        \A i \in 1..Len(framing.emitted) :
            framing.emitted[i].provider_chat_id < FirstDone(framing.events)

\* C30: line framing is independent of the read windows.  For a body whose
\* only `data: [DONE]`, if any, is its last event, a stream that has ended
\* emitted what the client emits for the body in one window: one chunk per
\* data line, in order, none dropped or duplicated.
DoneOnlyLast(events) ==
    \A k \in 1..Len(events) : events[k] = "done" => k = Len(events)

C30_FramingIndependentOfWindows ==
    framing.pc = "ended" /\ DoneOnlyLast(framing.events) =>
        framing.emitted =
            line_loop(framing.client, splitlines(BodyText(framing.events, 1)))

\* C31: errors are never swallowed in a streaming path.  A stream of
\* OpenAICompatibleClient.stream_chat over a body with a data line whose
\* payload is neither JSON nor `[DONE]` does not end normally, and it emits
\* no chunk for a data line after that line.
Malformed(events) == { k \in 1..Len(events) : events[k] = "malformed" }

C31_MalformedLineEndsStream ==
    framing.pc # "none" /\ framing.client = "openai"
      /\ Malformed(framing.events) # {} =>
        /\ framing.pc # "ended"
        /\ \A i \in 1..Len(framing.emitted) : \A k \in Malformed(framing.events) :
              framing.emitted[i].provider_chat_id < k

\* ---------------------------------------------------- origin reasoning
\* C32: for an origin-reasoning model of the reasoner family each upstream
\* delta read so far has given exactly one chunk, whose content and
\* reasoning_content are those of the delta, and the stream has raised
\* nothing.
C32_OriginDeltaCopied ==
    /\ extraction.exc = "none"
    /\ Len(extraction.emitted) = Len(extraction.text)
    /\ \A i \in 1..Len(extraction.emitted) :
          /\ extraction.emitted[i].content = extraction.text[i].content
          /\ extraction.emitted[i].reasoning_content =
                extraction.text[i].reasoning_content

\* ------------------------------------------------------------ read loop
\* C33: chunked-read cancellation.  The read loop tests the cancel flag at
\* every window: once the flag is set no further window is yielded, and the
\* loop's next turn releases the response and ends the sequence without an
\* error; a run whose flag was never set and that ended normally yielded
\* every non-empty window, in order.
NonEmpty(windows) == SelectSeq(windows, LAMBDA w : ~w.empty)

C33_ChunkedReadCancellation ==
    /\ [](framing.pc = "ended" =>
            /\ framing.response = "released"
            /\ framing.exc = "none"
            /\ ~framing.cancel_flag => framing.emitted = NonEmpty(framing.body))
    /\ [][/\ framing.cancel_flag => framing'.emitted = framing.emitted
          /\ (framing.cancel_flag /\ framing.pc = "reading"
                /\ framing'.windows # framing.windows)
             => /\ framing'.pc = "ended"
                /\ framing'.response = "released"
                /\ framing'.exc = "none"]_vars

\* The flag was set after a window had been yielded and while another was
\* still to come, and the loop has ended on its test.
C33_Witness ==
    /\ framing.pc = "ended"
    /\ framing.cancel_flag
    /\ framing.emitted # << >>
    /\ Len(framing.emitted) < Len(NonEmpty(framing.body))
    /\ framing.response = "released"

\* ------------------------------------------------------------- hand-off
\* The reasoning_content of the chunks of the reasoning upstream that were
\* forwarded to the caller, in order.
ForwardedReasoning(r) ==
    LET sel == SelectSeq(delivered[r], LAMBDA ch : ch.stage = "reasoning" /\ ch.rc)
    IN [i \in 1..Len(sel) |-> sel[i].seq]

\* C34: reasoning accumulation and rewrite.  When the target upstream of a
\* composite has been invoked, the accumulated reasoning is that of exactly
\* the chunks forwarded in the reasoning stage, in order, and the target was
\* called with target_model and with the request's messages, the content of
\* the last one replaced by the template made of its original content and
\* the accumulated reasoning.
C34_AccumulationAndRewrite ==
    \A r \in Req : IsComposite(r) /\ response[r]["target"] # "none" =>
        /\ temp_content[r] = ForwardedReasoning(r)
        /\ messages[r].called.model = other_params.target_model
        /\ messages[r].called.messages =
              [RequestMessages(last_role[r]) EXCEPT
                 ![2].content = fixed_content(Text("q"), ForwardedReasoning(r))]

\* The target was invoked after two chunks with reasoning had been
\* forwarded.
C34_Witness ==
    \E r \in Req :
        /\ IsComposite(r)
        /\ response[r]["target"] # "none"
        /\ Len(temp_content[r]) = 2
        /\ messages[r].called.model # "none"

\* C35: the rewrite works on a copy.  At every moment of a composite stream
\* the dicts of the caller's messages have the role and the content they were
\* sent with.
C35_CallerMessagesUnchanged ==
    \A r \in Req : IsComposite(r) =>
        messages[r].dicts = RequestMessages(last_role[r])

\* C36: hand-off check.  When the reasoning stage ends with reasoning
\* accumulated and a user message last while the caller's signal is set, the
\* composite ends there; a composite that ended at the hand-off never invoked
\* its target, never set the target's cancel flag and delivered no chunk of
\* the target.
C36_HandoffCheck ==
    /\ [](\A r \in Req : outcome[r] = "cancelled_handoff" =>
            /\ pc[r] = "Done"
            /\ response[r]["target"] = "none"
            /\ messages[r].called.model = "none"
            /\ ~target_cancel_flag[r]
            /\ \A i \in 1..Len(delivered[r]) : delivered[r][i].stage # "target")
    /\ [][\A r \in Req :
            /\ IsComposite(r) /\ ReasoningStageEnds(r)
            /\ temp_content'[r] # << >> /\ last_role[r] = "user"
            /\ cancel_flag[r]
            => outcome'[r] = "cancelled_handoff"]_vars

\* The caller cancelled while the boundary chunk was with the consumer: the
\* composite ended at the hand-off with reasoning accumulated.
C36_Witness ==
    \E r \in Req :
        /\ outcome[r] = "cancelled_handoff"
        /\ temp_content[r] # << >>
        /\ cancel_flag[r]
        /\ response[r]["reasoning"] # "none"

\* ------------------------------------------------------------- registry
\* C37: cancel_request(chat_id) returns true exactly when chat_id is a key
\* of the registry.  A step that sets a signal sets the signal registered
\* under one key and no other, and leaves the keys and what they refer to
\* as they were; no step clears a signal that is set.
C37_CancelRequestFrame ==
    /\ [](\A id \in CancelIds \ {NoChatId} :
            cancel_request_result(id) <=> id \in DOMAIN cancel_events)
    /\ [][/\ \A r \in Req : cancel_flag[r] => cancel_flag'[r]
          /\ cancel_flag' # cancel_flag =>
                /\ cancel_events' = cancel_events
                /\ \E id \in DOMAIN cancel_events :
                      /\ ~cancel_flag[cancel_events[id]]
                      /\ cancel_flag' = [cancel_flag EXCEPT ![cancel_events[id]] = TRUE]]_vars

\* Two composite requests are registered under different ids and the signal
\* of one of them is set, the other's is not.
C37_Witness ==
    \E id1, id2 \in DOMAIN cancel_events :
        /\ id1 # id2
        /\ cancel_flag[cancel_events[id1]]
        /\ ~cancel_flag[cancel_events[id2]]

\* ---------------------------------------------------------- model chain
\* C38: ModelChain streaming delivers everything the processors produced.
\* When a run without an error has yielded its `data: [DONE]`, every item
\* that was put on the output queue was yielded before it, in queue order.
C38_ChainDeliversEverything ==
    chain.pc = "done" /\ ~chain.error =>
        chain.yielded = [i \in 1..chain.put |-> Item(i)] \o <<DONE>>

\* ------------------------------------------------------- connection pool
\* A context that is inside its `with` body with a connection.
Holds(t) == pool.ctx[t].pc = "entered" /\ pool.ctx[t].conn # PyNone

\* C39: pool exclusivity under any interleaving of get_connection,
\* release_connection and close_all. The slot a context was handed is not in
\* `available` while the context holds its connection, no two contexts hold
\* the same connection object, and at most max_connections contexts hold a
\* connection at a time.
C39_PoolExclusivity ==
    /\ \A t \in Threads : Holds(t) => ~Member(pool.available, pool.ctx[t].slot)
    /\ \A t, u \in Threads :
          Holds(t) /\ Holds(u) /\ t # u => pool.ctx[t].conn # pool.ctx[u].conn
    /\ Cardinality({t \in Threads : Holds(t)}) <= MaxConnections

AllExited == \A t \in Threads : pool.ctx[t].pc = "exited"

\* The context t leaves its `with` body in this step.
Exits(t) == pool.ctx[t].pc = "entered" /\ pool'.ctx[t].pc = "exited"

\* C40: the pool does not leak. Once every context has exited, `available`
\* holds each of the max_connections slots once and no slot is in use; a
\* context that exits holding a slot's connection ends with a commit or a
\* rollback and leaves the slot available and not in use; and a
\* get_connection whose wait has run out returns None, the wait never
\* exceeding its bound.
C40_PoolNoLeak ==
    /\ [](AllExited =>
            /\ Len(pool.available) = MaxConnections
            /\ \A i \in Slots : Member(pool.available, i) /\ ~pool.in_use[i])
    /\ [][\A t \in Threads :
            Exits(t) /\ Holds(t) /\ pool.pool[pool.ctx[t].slot] = pool.ctx[t].conn =>
                /\ Member(pool'.available, pool.ctx[t].slot)
                /\ ~pool'.in_use[pool.ctx[t].slot]
                /\ pool'.ctx[t].ended \in {"commit", "rollback"}]_vars
    /\ [](\A t \in Threads : pool.ctx[t].wait_time <= MaxRetries)
    /\ [][\A t \in Threads :
            /\ pool.ctx[t].pc = "getting"
            /\ pool.ctx[t].wait_time >= MaxRetries
            /\ pool'.ctx[t] # pool.ctx[t]
            => pool'.ctx[t].pc = "entered" /\ pool'.ctx[t].conn = PyNone]_vars

\* Every context has exited, one of them after committing on a connection it
\* was handed and one after giving up without a connection.
C40_Witness ==
    /\ AllExited
    /\ \E t \in Threads : pool.ctx[t].ended = "commit"
    /\ \E t \in Threads : pool.ctx[t].ended = "no_connection"

====
